---- MODULE Spec2Model ----
(***************************************************************************)
(* A model of the update queue (ReactUpdateQueue.js, lines 1-652) and of   *)
(* the cooperative scheduler that follows it in the same file.             *)
(*                                                                         *)
(* Update queue: a fiber pair (current = fiber 1, work-in-progress =       *)
(* fiber 2), update objects and queue objects live in small heaps indexed  *)
(* by integers, 0 is the null reference.                                   *)
(***************************************************************************)
EXTENDS Integers, Sequences, FiniteSets, TLC

\* ------------------------------------------------------------------ bounds
MaxUpdates == 3          \* update objects that createUpdate may allocate
ExampleUpdates == 4      \* the same, in the specification of the four-update example
MaxExp == 2              \* the expiration times of updates are 1..MaxExp

\* ------------------------------------------------------- program constants
NoWork == 0
UpdateState == 0
ReplaceState == 1
ForceUpdate == 2
CaptureUpdate == 3

Null == 0
Current == 1             \* the fiber whose queue is the committed generation
WorkInProgress == 2      \* its alternate, the fiber being rendered
FiberIds == {Current, WorkInProgress}
QueueIds == {1, 2}
HeapSize == IF MaxUpdates < ExampleUpdates THEN ExampleUpdates ELSE MaxUpdates
UpdateIds == 1..HeapSize
ExpTimes == 1..MaxExp          \* expiration times of updates
RenderTimes == 1..(MaxExp + 1) \* render thresholds: one is above every update

VARIABLES
  updates,         \* heap of Update objects: id -> record
  nUpdates,        \* number of Update objects allocated so far
  queues,          \* heap of UpdateQueue objects: id -> record
  fibers,          \* fiber -> [alternate, updateQueue, memoizedState, expirationTime, effectTag]
  hasForceUpdate,  \* module-level flag of ReactUpdateQueue.js
  called,          \* log: the callbacks invoked so far, in order, as [id, callback]
  lastFold,        \* history: the updates with a callback the latest pass applied, in
                   \*   order, and the updates it skipped; emptied by commitUpdateQueue
  folded,          \* history: queue id -> sequence of update ids folded into its baseState
  captured,        \* history: ids of the updates enqueued by enqueueCapturedUpdate
  lastOp,          \* history: the operation that produced this state, with its arguments
  rebased,         \* history: some pass skipped an update and applied a later one
  diverged         \* TRUE once an operation failed to terminate

qvars == <<updates, nUpdates, queues, fibers, hasForceUpdate, called, lastFold, folded, captured,
           lastOp, rebased, diverged>>

\* The state of the scheduler (lines 688-701), its host and its clock.
VARIABLES
  nodes,                   \* heap of callback nodes: id -> record
  nNodes,                  \* number of nodes allocated so far
  firstCallbackNode,
  currentDidTimeout,
  isSchedulerPaused,
  currentPriorityLevel,
  currentEventStartTime,
  currentExpirationTime,
  isExecutingCallback,
  isHostCallbackScheduled,
  host,                    \* the host adapter: [armed, timeout, frameDeadline]
  now,                     \* the clock read by getCurrentTime
  ran,                     \* log: ids of the nodes whose callback was invoked, in order
  hostLog,                 \* log: calls of the host adapter made by the latest operation
  sLastOp,                 \* history: the operation that produced this state
  parentOf,                \* history: for a continuation node, the node whose callback returned it
  cancelled,               \* history: the nodes unstable_cancelCallback took out of the list
  inserted,                \* log: the continuations the latest operation inserted, each
                           \*      with the pending list as it was right after
  yields,                  \* log: the answers of unstable_shouldYield to the callbacks
                           \*      of the latest operation
  flushLog                 \* log: the nodes the loops of flushWork detached in the latest
                           \*      operation, and the state the try block ended in

svars == <<nodes, nNodes, firstCallbackNode, currentDidTimeout, isSchedulerPaused,
           currentPriorityLevel, currentEventStartTime, currentExpirationTime,
           isExecutingCallback, isHostCallbackScheduled, host, now, ran, hostLog, sLastOp,
           parentOf, cancelled, inserted, yields, flushLog>>

\* The expiration-time calculator (src/index.js, lines 77-166) keeps no state;
\* these variables hold the build flag and the two latest computations.
VARIABLES
  dev,                     \* __DEV__, fixed for a build
  request,                 \* the latest computation: its inputs and its score
  earlier                  \* the computation before it

evars == <<dev, request, earlier>>

\* The frame-paced host adapter (lines 1315-1478): its frame-rate heuristic.
VARIABLES
  frame,                   \* [frameDeadline, previousFrameTime, activeFrameTime], and
                           \*   rafTime, the time stamp of the latest animation frame
  frameTimes               \* history: the frame times (nextFrameTime) the two latest
                           \*   calls of animationTick computed

hvars == <<frame, frameTimes>>

vars == <<qvars, svars, evars, hvars>>

\* ---------------------------------------------------------------- states
\* A component state is an object with two keys: s (a string, here a sequence
\* of letters) and t (a number).  An absent key reads as the empty value.
EmptyState == [s |-> <<>>, t |-> 0]

\* Payload shapes.  The letter of an update is its id.
\*   "fn"  : updater function  prev => ({s: prev.s + letter})
\*   "obj" : literal partial state {t: letter}
\*   "nil" : null
\*   "throw" : an updater function that raises
Payloads == {"fn", "obj", "nil", "throw"}
Callbacks == {"null", "ok", "throw", "enqueue"}

\* createUpdate, lines 201-215, followed by the caller's assignments of tag,
\* payload and callback.
createUpdate(expirationTime, tag, payload, callback) ==
  [expirationTime |-> expirationTime, tag |-> tag, payload |-> payload,
   callback |-> callback, next |-> Null, nextEffect |-> Null]

NoUpdate == createUpdate(NoWork, UpdateState, "nil", "null")

createUpdateQueue(baseState) ==
  [baseState |-> baseState,
   firstUpdate |-> Null, lastUpdate |-> Null,
   firstCapturedUpdate |-> Null, lastCapturedUpdate |-> Null,
   firstEffect |-> Null, lastEffect |-> Null,
   firstCapturedEffect |-> Null, lastCapturedEffect |-> Null]

cloneUpdateQueue(currentQueue) ==
  [baseState |-> currentQueue.baseState,
   firstUpdate |-> currentQueue.firstUpdate, lastUpdate |-> currentQueue.lastUpdate,
   firstCapturedUpdate |-> Null, lastCapturedUpdate |-> Null,
   firstEffect |-> Null, lastEffect |-> Null,
   firstCapturedEffect |-> Null, lastCapturedEffect |-> Null]

NoFold == [applied |-> <<>>, skipped |-> {}]

\* The store threaded through the operations.
Store == [updates |-> updates, nUpdates |-> nUpdates, queues |-> queues, fibers |-> fibers,
          hasForceUpdate |-> hasForceUpdate, called |-> called, lastFold |-> lastFold,
          folded |-> folded,
          captured |-> captured, rebased |-> rebased, thrown |-> FALSE,
          diverged |-> FALSE, maxUpdates |-> MaxUpdates]

\* A queue object no fiber refers to (garbage) is reused for the next allocation.
FreeQueue(h) == CHOOSE q \in QueueIds : \A f \in FiberIds : h.fibers[f].updateQueue # q

\* Allocate a queue object holding `queue` and store it in fiber.updateQueue.
\* The history of a created queue is empty, that of a clone is its source's.
AllocQueue(h, fiber, queue, history) ==
  LET q == FreeQueue(h) IN
  [h EXCEPT !.queues[q] = queue, !.fibers[fiber].updateQueue = q, !.folded[q] = history]

appendUpdateToQueue(h, queue, update) ==
  IF h.queues[queue].lastUpdate = Null
  THEN [h EXCEPT !.queues[queue].firstUpdate = update, !.queues[queue].lastUpdate = update]
  ELSE [h EXCEPT !.updates[h.queues[queue].lastUpdate].next = update,
                 !.queues[queue].lastUpdate = update]

\* Lines 238-278 of enqueueUpdate: make sure the queues exist.
enqueueUpdateQueues(h, fiber) ==
  LET alternate == h.fibers[fiber].alternate
      q1 == h.fibers[fiber].updateQueue
  IN
  IF alternate = Null
  THEN IF q1 = Null
       THEN AllocQueue(h, fiber, createUpdateQueue(h.fibers[fiber].memoizedState), <<>>)
       ELSE h
  ELSE LET q2 == h.fibers[alternate].updateQueue IN
       IF q1 = Null
       THEN IF q2 = Null
            THEN LET h1 == AllocQueue(h, fiber,
                             createUpdateQueue(h.fibers[fiber].memoizedState), <<>>)
                 IN AllocQueue(h1, alternate,
                             createUpdateQueue(h.fibers[alternate].memoizedState), <<>>)
            ELSE AllocQueue(h, fiber, cloneUpdateQueue(h.queues[q2]), h.folded[q2])
       ELSE IF q2 = Null
            THEN AllocQueue(h, alternate, cloneUpdateQueue(h.queues[q1]), h.folded[q1])
            ELSE h

\* enqueueUpdate that, with two non-empty queues, appends to the first queue
\* and leaves the second queue's lastUpdate alone.
enqueueUpdateFirstQueueOnly(h, fiber, update) ==
  LET h1 == enqueueUpdateQueues(h, fiber)
      alternate == h1.fibers[fiber].alternate
      queue1 == h1.fibers[fiber].updateQueue
      queue2 == IF alternate = Null THEN Null ELSE h1.fibers[alternate].updateQueue
  IN
  IF queue2 = Null \/ queue1 = queue2
  THEN appendUpdateToQueue(h1, queue1, update)
  ELSE IF h1.queues[queue1].lastUpdate = Null \/ h1.queues[queue2].lastUpdate = Null
       THEN appendUpdateToQueue(appendUpdateToQueue(h1, queue1, update), queue2, update)
       ELSE appendUpdateToQueue(h1, queue1, update)

\* enqueueUpdate, lines 233-302 (the __DEV__ warning of lines 304-320 has no effect).
enqueueUpdate(h, fiber, update) ==
  LET h1 == enqueueUpdateQueues(h, fiber)
      alternate == h1.fibers[fiber].alternate
      queue1 == h1.fibers[fiber].updateQueue
      queue2 == IF alternate = Null THEN Null ELSE h1.fibers[alternate].updateQueue
  IN
  IF queue2 = Null \/ queue1 = queue2
  THEN appendUpdateToQueue(h1, queue1, update)
  ELSE IF h1.queues[queue1].lastUpdate = Null \/ h1.queues[queue2].lastUpdate = Null
       THEN appendUpdateToQueue(appendUpdateToQueue(h1, queue1, update), queue2, update)
       ELSE LET h2 == appendUpdateToQueue(h1, queue1, update)
            IN [h2 EXCEPT !.queues[queue2].lastUpdate = update]

\* Variant: the queue is used as it is, the current fiber's or not.
workInProgressQueueAsItIs(h, workInProgress, queue) == h

\* ensureWorkInProgressQueueIsAClone, lines 354-367.  Returns the store; the
\* queue to use is then workInProgress.updateQueue.
ensureWorkInProgressQueueIsAClone(h, workInProgress, queue) ==
  LET current == h.fibers[workInProgress].alternate IN
  IF current # Null /\ queue = h.fibers[current].updateQueue
  THEN AllocQueue(h, workInProgress, cloneUpdateQueue(h.queues[queue]), h.folded[queue])
  ELSE h

\* enqueueCapturedUpdate, lines 323-352.
enqueueCapturedUpdate(h, workInProgress, update) ==
  LET h1 == IF h.fibers[workInProgress].updateQueue = Null
            THEN AllocQueue(h, workInProgress,
                            createUpdateQueue(h.fibers[workInProgress].memoizedState), <<>>)
            ELSE ensureWorkInProgressQueueIsAClone(h, workInProgress,
                                                   h.fibers[workInProgress].updateQueue)
      q == h1.fibers[workInProgress].updateQueue
  IN
  IF h1.queues[q].lastCapturedUpdate = Null
  THEN [h1 EXCEPT !.queues[q].firstCapturedUpdate = update,
                  !.queues[q].lastCapturedUpdate = update]
  ELSE [h1 EXCEPT !.updates[h1.queues[q].lastCapturedUpdate].next = update,
                  !.queues[q].lastCapturedUpdate = update]

\* ------------------------------------------------------------------ fold
\* null and undefined, as a value that compares with objects.
NullValue == [null |-> TRUE]
IsNull(v) == DOMAIN v = {"null"}

\* payload.call(instance, prevState, nextProps) for the updater shape, the
\* payload itself for a literal (lines 379-399, 407-428).
PayloadValue(update, id, prevState) ==
  CASE update.payload = "fn"  -> [s |-> Append(prevState.s, id)]
    [] update.payload = "obj" -> [t |-> id]
    [] OTHER                  -> NullValue

\* Object.assign({}, prevState, partialState), line 434.
Assign(prevState, partialState) ==
  [k \in {"s", "t"} |-> IF k \in DOMAIN partialState THEN partialState[k] ELSE prevState[k]]

\* Variant: ReplaceState merges like UpdateState, and ForceUpdate does not
\* raise the flag.
getStateFromUpdateMergingAll(h, workInProgress, id, prevState) ==
  LET update == h.updates[id]
      partialState == PayloadValue(update, id, prevState)
  IN
  CASE update.tag \in {ReplaceState, CaptureUpdate, UpdateState} ->
         [h |-> h,
          state |-> IF IsNull(partialState) THEN prevState
                    ELSE Assign(prevState, partialState)]
    [] OTHER -> [h |-> h, state |-> prevState]

\* Variant: a tag without a case is handled as UpdateState.
getStateFromUpdateDefaultingToUpdateState(h, workInProgress, id, prevState) ==
  LET update == h.updates[id]
      h1 == IF update.tag = CaptureUpdate
            THEN [h EXCEPT !.fibers[workInProgress].effectTag =
                              (@ \ {"ShouldCapture"}) \cup {"DidCapture"}]
            ELSE h
      partialState == PayloadValue(update, id, prevState)
      raises == update.payload = "throw"
  IN
  CASE update.tag = ReplaceState ->
         IF raises THEN [h |-> [h EXCEPT !.thrown = TRUE], state |-> prevState]
         ELSE [h |-> h, state |-> IF IsNull(partialState) THEN partialState
                                  ELSE Assign(EmptyState, partialState)]
    [] update.tag = ForceUpdate ->
         [h |-> [h EXCEPT !.hasForceUpdate = TRUE], state |-> prevState]
    [] OTHER ->
         IF raises THEN [h |-> [h1 EXCEPT !.thrown = TRUE], state |-> prevState]
         ELSE [h |-> h1,
               state |-> IF IsNull(partialState) THEN prevState
                         ELSE Assign(prevState, partialState)]

\* getStateFromUpdate, lines 369-442.  Returns the store and the next state.
getStateFromUpdate(h, workInProgress, id, prevState) ==
  LET update == h.updates[id]
      h1 == IF update.tag = CaptureUpdate
            THEN [h EXCEPT !.fibers[workInProgress].effectTag =
                              (@ \ {"ShouldCapture"}) \cup {"DidCapture"}]
            ELSE h
      partialState == PayloadValue(update, id, prevState)
      raises == update.payload = "throw"
  IN
  CASE update.tag = ReplaceState ->
         IF raises THEN [h |-> [h EXCEPT !.thrown = TRUE], state |-> prevState]
         ELSE [h |-> h, state |-> IF IsNull(partialState) THEN partialState
                                  ELSE Assign(EmptyState, partialState)]
    [] update.tag \in {CaptureUpdate, UpdateState} ->
         IF raises THEN [h |-> [h1 EXCEPT !.thrown = TRUE], state |-> prevState]
         ELSE [h |-> h1,
               state |-> IF IsNull(partialState) THEN prevState
                         ELSE Assign(prevState, partialState)]
    [] update.tag = ForceUpdate ->
         [h |-> [h EXCEPT !.hasForceUpdate = TRUE], state |-> prevState]
    [] OTHER -> [h |-> h, state |-> prevState]

\* Lines 495-506 (list = "Effect") and 545-556 (list = "CapturedEffect"):
\* put an applied update that has a callback on the effect list.
appendEffect(h, workInProgress, queue, id, first, last) ==
  IF h.updates[id].callback = "null" THEN h
  ELSE LET h1 == [h EXCEPT !.fibers[workInProgress].effectTag = @ \cup {"Callback"},
                           !.updates[id].nextEffect = Null,
                           !.lastFold.applied = Append(@, id)]
       IN IF h1.queues[queue][last] = Null
          THEN [h1 EXCEPT !.queues[queue][first] = id, !.queues[queue][last] = id]
          ELSE [h1 EXCEPT !.updates[h1.queues[queue][last]].nextEffect = id,
                          !.queues[queue][last] = id]

\* The state of one pass of processUpdateQueue (its local variables, and the
\* history of what resultState and newBaseState are made of).
StartPass(h, queue) ==
  [h |-> h,
   newBaseState |-> h.queues[queue].baseState,
   newFirstUpdate |-> Null,
   newFirstCapturedUpdate |-> Null,
   newExpirationTime |-> NoWork,
   resultState |-> h.queues[queue].baseState,
   resultOf |-> h.folded[queue],
   baseOf |-> h.folded[queue]]

\* Variant: an update that expires exactly at the render time is skipped.
AdmitsStrictly(renderExpirationTime, updateExpirationTime) ==
  updateExpirationTime > renderExpirationTime

Admits(renderExpirationTime, updateExpirationTime) ==
  ~(updateExpirationTime < renderExpirationTime)

\* Variant: only the first skipped update sets the remaining expiration time.
remainingOfFirstSkipped(newExpirationTime, updateExpirationTime) ==
  IF newExpirationTime = NoWork THEN updateExpirationTime ELSE newExpirationTime

\* Lines 481-483 and 531-533: the remaining expiration time after a skip.
remainingExpirationTime(newExpirationTime, updateExpirationTime) ==
  IF newExpirationTime < updateExpirationTime THEN updateExpirationTime
  ELSE newExpirationTime

\* The loop over the normal list, lines 465-510.
RECURSIVE processUpdates(_, _, _, _, _)
processUpdates(p, workInProgress, queue, renderExpirationTime, id) ==
  IF id = Null THEN p
  ELSE
    LET update == p.h.updates[id]
        updateExpirationTime == update.expirationTime
    IN
    IF ~Admits(renderExpirationTime, updateExpirationTime)
    THEN processUpdates(
           [p EXCEPT !.h.lastFold.skipped = @ \cup {id},
                     !.newFirstUpdate = IF @ = Null THEN id ELSE @,
                     !.newBaseState = IF p.newFirstUpdate = Null THEN p.resultState ELSE @,
                     !.baseOf = IF p.newFirstUpdate = Null THEN p.resultOf ELSE @,
                     !.newExpirationTime =
                        remainingExpirationTime(@, updateExpirationTime)],
           workInProgress, queue, renderExpirationTime, update.next)
    ELSE
      LET g == getStateFromUpdate(p.h, workInProgress, id, p.resultState)
          h2 == appendEffect(g.h, workInProgress, queue, id, "firstEffect", "lastEffect")
      IN IF g.h.thrown THEN [p EXCEPT !.h = g.h]
         ELSE processUpdates(
                [p EXCEPT !.h = h2, !.resultState = g.state, !.resultOf = Append(@, id)],
                workInProgress, queue, renderExpirationTime, h2.updates[id].next)

\* The loop over the captured list, lines 513-559.
RECURSIVE processCapturedUpdates(_, _, _, _, _)
processCapturedUpdates(p, workInProgress, queue, renderExpirationTime, id) ==
  IF id = Null \/ p.h.thrown THEN p
  ELSE
    LET update == p.h.updates[id]
        updateExpirationTime == update.expirationTime
    IN
    IF ~Admits(renderExpirationTime, updateExpirationTime)
    THEN processCapturedUpdates(
           [p EXCEPT !.h.lastFold.skipped = @ \cup {id},
                     !.newFirstCapturedUpdate = IF @ = Null THEN id ELSE @,
                     !.newBaseState =
                        IF p.newFirstCapturedUpdate = Null /\ p.newFirstUpdate = Null
                        THEN p.resultState ELSE @,
                     !.baseOf =
                        IF p.newFirstCapturedUpdate = Null /\ p.newFirstUpdate = Null
                        THEN p.resultOf ELSE @,
                     !.newExpirationTime =
                        remainingExpirationTime(@, updateExpirationTime)],
           workInProgress, queue, renderExpirationTime, update.next)
    ELSE
      LET g == getStateFromUpdate(p.h, workInProgress, id, p.resultState)
          h2 == appendEffect(g.h, workInProgress, queue, id,
                             "firstCapturedEffect", "lastCapturedEffect")
      IN IF g.h.thrown THEN [p EXCEPT !.h = g.h]
         ELSE processCapturedUpdates(
                [p EXCEPT !.h = h2, !.resultState = g.state, !.resultOf = Append(@, id)],
                workInProgress, queue, renderExpirationTime, h2.updates[id].next)

\* Variant: the result of the pass becomes the base state even when an update
\* was skipped (no rebase).
finishPassWithoutRebase(p, workInProgress, queue) ==
  [p.h EXCEPT
     !.queues[queue].lastUpdate = IF p.newFirstUpdate = Null THEN Null ELSE @,
     !.queues[queue].lastCapturedUpdate =
        IF p.newFirstCapturedUpdate = Null THEN Null ELSE @,
     !.fibers[workInProgress].effectTag =
        IF p.newFirstCapturedUpdate = Null THEN @ ELSE @ \cup {"Callback"},
     !.queues[queue].baseState = p.resultState,
     !.folded[queue] = p.resultOf,
     !.queues[queue].firstUpdate = p.newFirstUpdate,
     !.queues[queue].firstCapturedUpdate = p.newFirstCapturedUpdate,
     !.fibers[workInProgress].expirationTime = p.newExpirationTime,
     !.fibers[workInProgress].memoizedState = p.resultState]

\* Lines 561-587: write the pass back to the queue and the fiber.
finishPass(p, workInProgress, queue) ==
  LET nothingSkipped == p.newFirstUpdate = Null /\ p.newFirstCapturedUpdate = Null
      newBaseState == IF nothingSkipped THEN p.resultState ELSE p.newBaseState
  IN
  [p.h EXCEPT
     !.queues[queue].lastUpdate = IF p.newFirstUpdate = Null THEN Null ELSE @,
     !.queues[queue].lastCapturedUpdate =
        IF p.newFirstCapturedUpdate = Null THEN Null ELSE @,
     !.fibers[workInProgress].effectTag =
        IF p.newFirstCapturedUpdate = Null THEN @ ELSE @ \cup {"Callback"},
     !.queues[queue].baseState = newBaseState,
     !.folded[queue] = IF nothingSkipped THEN p.resultOf ELSE p.baseOf,
     !.rebased = @ \/ (~nothingSkipped /\ p.resultOf # p.baseOf),
     !.queues[queue].firstUpdate = p.newFirstUpdate,
     !.queues[queue].firstCapturedUpdate = p.newFirstCapturedUpdate,
     !.fibers[workInProgress].expirationTime = p.newExpirationTime,
     !.fibers[workInProgress].memoizedState = p.resultState]

\* Variant: the pass is written back to the queue also when a payload
\* function raised.
processUpdateQueueWritingBack(h, workInProgress, queue0, renderExpirationTime) ==
  LET h1 == ensureWorkInProgressQueueIsAClone(
              [h EXCEPT !.hasForceUpdate = FALSE, !.lastFold = NoFold], workInProgress, queue0)
      queue == h1.fibers[workInProgress].updateQueue
      p1 == processUpdates(StartPass(h1, queue), workInProgress, queue,
                           renderExpirationTime, h1.queues[queue].firstUpdate)
      p2 == processCapturedUpdates(p1, workInProgress, queue, renderExpirationTime,
                                   p1.h.queues[queue].firstCapturedUpdate)
  IN finishPass(p2, workInProgress, queue)

\* processUpdateQueue, lines 444-592.  An exception of a payload function
\* leaves the statements after the call unexecuted.
processUpdateQueue(h, workInProgress, queue0, renderExpirationTime) ==
  LET h1 == ensureWorkInProgressQueueIsAClone(
              [h EXCEPT !.hasForceUpdate = FALSE, !.lastFold = NoFold], workInProgress, queue0)
      queue == h1.fibers[workInProgress].updateQueue
      p1 == processUpdates(StartPass(h1, queue), workInProgress, queue,
                           renderExpirationTime, h1.queues[queue].firstUpdate)
      p2 == processCapturedUpdates(p1, workInProgress, queue, renderExpirationTime,
                                   p1.h.queues[queue].firstCapturedUpdate)
  IN IF p2.h.thrown THEN p2.h ELSE finishPass(p2, workInProgress, queue)

\* ---------------------------------------------------------------- commit
\* The update a callback of shape "enqueue" schedules on its component.
ReentrantUpdate(h, effect) ==
  createUpdate(h.updates[effect].expirationTime, UpdateState, "fn", "null")

\* callCallback, lines 594-602, with the three callback shapes:
\*   "ok" returns, "throw" raises, "enqueue" calls enqueueUpdate (setState
\*   from inside the callback) when an update object can still be allocated.
callCallback(h, finishedWork, effect, callback) ==
  LET h1 == [h EXCEPT !.called = Append(@, [id |-> effect, callback |-> callback])] IN
  CASE callback = "throw" -> [h1 EXCEPT !.thrown = TRUE]
    [] callback = "enqueue" /\ h1.nUpdates < h1.maxUpdates ->
         LET id == h1.nUpdates + 1 IN
         enqueueUpdate([h1 EXCEPT !.nUpdates = id,
                                  !.updates[id] = ReentrantUpdate(h1, effect)],
                       finishedWork, id)
    [] OTHER -> h1

\* Variant: the callback reference is left in place.
keepCallback(h, effect) == h

\* Line 647: effect.callback = null, before the call.
clearCallback(h, effect) == [h EXCEPT !.updates[effect].callback = "null"]

\* commitUpdateEffects, lines 640-652.  A list of at most HeapSize nodes
\* ends within HeapSize steps; a walk that takes more is on a cycle and,
\* every callback on it being null after one lap, never ends.
RECURSIVE commitUpdateEffects(_, _, _, _)
commitUpdateEffects(h, finishedWork, effect, fuel) ==
  IF effect = Null THEN h
  ELSE IF fuel = 0 THEN [h EXCEPT !.diverged = TRUE]
  ELSE
    LET callback == h.updates[effect].callback IN
    IF callback # "null"
    THEN LET h1 == callCallback(clearCallback(h, effect), finishedWork, effect, callback)
         IN IF h1.thrown THEN h1
            ELSE commitUpdateEffects(h1, finishedWork, h1.updates[effect].nextEffect,
                                     fuel - 1)
    ELSE commitUpdateEffects(h, finishedWork, h.updates[effect].nextEffect, fuel - 1)

\* Lines 618-630 of commitUpdateQueue: join the captured list to the normal one.
joinCapturedUpdates(h, q) ==
  IF h.queues[q].firstCapturedUpdate # Null
  THEN LET h1 == IF h.queues[q].lastUpdate # Null
                 THEN [h EXCEPT !.updates[h.queues[q].lastUpdate].next =
                                   h.queues[q].firstCapturedUpdate,
                                !.queues[q].lastUpdate = h.queues[q].lastCapturedUpdate]
                 ELSE h
       IN [h1 EXCEPT !.queues[q].firstCapturedUpdate = Null,
                     !.queues[q].lastCapturedUpdate = Null]
  ELSE h

\* commitUpdateQueue, lines 612-638.  An exception or a walk that does not
\* end leaves the statements after it unexecuted.
commitUpdateQueue(h, finishedWork, q) ==
  LET h1 == joinCapturedUpdates([h EXCEPT !.lastFold = NoFold], q)
      h2 == commitUpdateEffects(h1, finishedWork, h1.queues[q].firstEffect, HeapSize + 1)
      h3 == [h2 EXCEPT !.queues[q].firstEffect = Null, !.queues[q].lastEffect = Null]
      h4 == commitUpdateEffects(h3, finishedWork, h3.queues[q].firstCapturedEffect,
                                HeapSize + 1)
      h5 == [h4 EXCEPT !.queues[q].firstCapturedEffect = Null,
                       !.queues[q].lastCapturedEffect = Null]
  IN IF h2.thrown \/ h2.diverged THEN h2
     ELSE IF h4.thrown \/ h4.diverged THEN h4
     ELSE h5

\* ------------------------------------------------------------ environment
\* createWorkInProgress (ReactFiber.js): a render (re)starts from the current
\* fiber; the work-in-progress fiber takes the current fiber's queue object,
\* which is what ensureWorkInProgressQueueIsAClone tests for.
createWorkInProgress(h) ==
  LET old == h.fibers[WorkInProgress].updateQueue
      h1 == [h EXCEPT !.fibers[WorkInProgress].updateQueue = h.fibers[Current].updateQueue,
                      !.fibers[WorkInProgress].memoizedState = h.fibers[Current].memoizedState,
                      !.fibers[WorkInProgress].expirationTime = h.fibers[Current].expirationTime,
                      !.fibers[WorkInProgress].effectTag = {}]
  IN IF old # Null /\ old # h.fibers[Current].updateQueue
     THEN [h1 EXCEPT !.queues[old] = createUpdateQueue(EmptyState), !.folded[old] = <<>>]
     ELSE h1

\* ----------------------------------------------------------------- inputs
\* The (tag, payload) shapes of the updates the callers create.
UpdateShapes == {<<UpdateState, "fn">>, <<ReplaceState, "obj">>}

\* The kinds of update of setState (a literal, an updater function, null),
\* replaceState and forceUpdate, and the kind of an error update.
KindShapes ==
  {<<UpdateState, "fn">>, <<UpdateState, "obj">>, <<UpdateState, "nil">>,
   <<ReplaceState, "obj">>, <<ForceUpdate, "nil">>}
CapturedShapes == {<<CaptureUpdate, "fn">>}

\* A tag that is none of the four: the switch of getStateFromUpdate (lines
\* 377-440) has no case for it.
UnknownTag == 4
MalformedShapes == {<<UpdateState, "fn">>, <<UnknownTag, "fn">>, <<UnknownTag, "obj">>}

\* Updater functions that return and updater functions that raise.
ThrowingShapes == {<<UpdateState, "fn">>, <<UpdateState, "throw">>}

LiveFibers == IF fibers[WorkInProgress].alternate = Null THEN {WorkInProgress} ELSE FiberIds

Fiber(alternate) ==
  [alternate |-> alternate, updateQueue |-> Null, memoizedState |-> EmptyState,
   expirationTime |-> NoWork, effectTag |-> {}]

\* The states a component may start from.
BaseStates == {EmptyState, [s |-> <<0>>, t |-> 0]}

Op(op, fiber, arg, thrown) == [op |-> op, fiber |-> fiber, arg |-> arg, thrown |-> thrown]

\* ------------------------------------------------------------------- spec
\* effectTags: the effect tags the work-in-progress fiber may carry at the
\* start (ShouldCapture is set on a fiber that is about to capture an error).
QInitWith(bases, pairings, effectTags) ==
  /\ updates = [i \in UpdateIds |-> NoUpdate]
  /\ nUpdates = 0
  /\ queues = [q \in QueueIds |-> createUpdateQueue(EmptyState)]
  /\ \E paired \in pairings, base \in bases, effectTag \in effectTags :
       fibers = [f \in FiberIds |->
                   [Fiber(IF paired THEN (IF f = Current THEN WorkInProgress ELSE Current)
                          ELSE Null)
                      EXCEPT !.memoizedState = base,
                             !.effectTag = IF f = WorkInProgress THEN effectTag ELSE {}]]
  /\ hasForceUpdate = FALSE
  /\ called = <<>>
  /\ lastFold = NoFold
  /\ folded = [q \in QueueIds |-> <<>>]
  /\ captured = {}
  /\ lastOp = Op("init", Null, 0, FALSE)
  /\ rebased = FALSE
  /\ diverged = FALSE

QInitFrom(bases, pairings) == QInitWith(bases, pairings, {{}})

Install(h, op) ==
  /\ updates' = h.updates
  /\ nUpdates' = h.nUpdates
  /\ queues' = h.queues
  /\ fibers' = h.fibers
  /\ hasForceUpdate' = h.hasForceUpdate
  /\ called' = h.called
  /\ lastFold' = h.lastFold
  /\ folded' = h.folded
  /\ captured' = h.captured
  /\ rebased' = h.rebased
  /\ diverged' = h.diverged
  /\ lastOp' = [op EXCEPT !.thrown = h.thrown]
  /\ UNCHANGED <<svars, evars, hvars>>

EnqueueUpdate(shapes, cbs, max) ==
  /\ ~diverged
  /\ nUpdates < max
  /\ \E fiber \in LiveFibers, e \in ExpTimes, shape \in shapes, cb \in cbs :
       LET id == nUpdates + 1
           h == [Store EXCEPT !.nUpdates = id, !.maxUpdates = max,
                              !.updates[id] = createUpdate(e, shape[1], shape[2], cb)]
       IN Install(enqueueUpdate(h, fiber, id), Op("enqueueUpdate", fiber, id, FALSE))

EnqueueCapturedUpdate(shapes, cbs, max) ==
  /\ ~diverged
  /\ nUpdates < max
  /\ \E e \in ExpTimes, shape \in shapes, cb \in cbs :
       LET id == nUpdates + 1
           h == [Store EXCEPT !.nUpdates = id, !.maxUpdates = max,
                              !.updates[id] = createUpdate(e, shape[1], shape[2], cb),
                              !.captured = @ \cup {id}]
       IN Install(enqueueCapturedUpdate(h, WorkInProgress, id),
                  Op("enqueueCapturedUpdate", WorkInProgress, id, FALSE))

ProcessUpdateQueue ==
  /\ ~diverged
  /\ fibers[WorkInProgress].updateQueue # Null
  /\ \E renderExpirationTime \in RenderTimes :
       Install(processUpdateQueue(Store, WorkInProgress, fibers[WorkInProgress].updateQueue,
                                  renderExpirationTime),
               Op("processUpdateQueue", WorkInProgress, renderExpirationTime, FALSE))

CommitUpdateQueue(max) ==
  /\ ~diverged
  /\ fibers[WorkInProgress].updateQueue # Null
  /\ Install(commitUpdateQueue([Store EXCEPT !.maxUpdates = max], WorkInProgress,
                               fibers[WorkInProgress].updateQueue),
             Op("commitUpdateQueue", WorkInProgress, 0, FALSE))

CreateWorkInProgress ==
  /\ ~diverged
  /\ fibers[WorkInProgress].alternate # Null
  /\ fibers[Current].updateQueue # Null
  /\ fibers[WorkInProgress].updateQueue # fibers[Current].updateQueue
  /\ Install(createWorkInProgress(Store), Op("createWorkInProgress", WorkInProgress, 0, FALSE))

\* The four operations of the module.
ApiNext(shapes, cbs, max) ==
  \/ EnqueueUpdate(shapes, cbs, max)
  \/ EnqueueCapturedUpdate(shapes, cbs, max)
  \/ ProcessUpdateQueue
  \/ CommitUpdateQueue(max)

\* The four operations, and renders that restart from the current fiber.
QNext(shapes, cbs, max) ==
  \/ EnqueueUpdate(shapes, cbs, max)
  \/ EnqueueCapturedUpdate(shapes, cbs, max)
  \/ ProcessUpdateQueue
  \/ CommitUpdateQueue(max)
  \/ CreateWorkInProgress

\* Enqueueing and folding, without commits.
FoldNext(shapes, capturedShapes, cbs, max) ==
  \/ EnqueueUpdate(shapes, cbs, max)
  \/ EnqueueCapturedUpdate(capturedShapes, cbs, max)
  \/ ProcessUpdateQueue

\* Without captured updates.
NormalNext(shapes, cbs, max) ==
  \/ EnqueueUpdate(shapes, cbs, max)
  \/ ProcessUpdateQueue
  \/ CommitUpdateQueue(max)
  \/ CreateWorkInProgress

\* ------------------------------------------------------- reading the heap
WIPQueue == fibers[WorkInProgress].updateQueue

\* The nodes reachable from `id` through the field `link`, in order.
RECURSIVE ListFrom(_, _, _, _)
ListFrom(upd, id, link, fuel) ==
  IF id = Null \/ fuel = 0 THEN <<>>
  ELSE <<id>> \o ListFrom(upd, upd[id][link], link, fuel - 1)

NormalList(upd, queue) == ListFrom(upd, queue.firstUpdate, "next", HeapSize)
CapturedList(upd, queue) == ListFrom(upd, queue.firstCapturedUpdate, "next", HeapSize)
Range(seq) == {seq[i] : i \in DOMAIN seq}

\* The state obtained by applying the updates of `seq` in order.
RECURSIVE ApplyAll(_, _)
ApplyAll(state, seq) ==
  IF seq = <<>> THEN state
  ELSE ApplyAll(getStateFromUpdate(Store, WorkInProgress, Head(seq), state).state, Tail(seq))

AdmittedAt(r, seq) == SelectSeq(seq, LAMBDA i : updates[i].expirationTime >= r)
SkippedAt(r, seq) == SelectSeq(seq, LAMBDA i : updates[i].expirationTime < r)

RECURSIVE BeforeFirstSkipped(_, _)
BeforeFirstSkipped(r, seq) ==
  IF seq = <<>> \/ updates[Head(seq)].expirationTime < r THEN <<>>
  ELSE <<Head(seq)>> \o BeforeFirstSkipped(r, Tail(seq))

RECURSIVE FromFirstSkipped(_, _)
FromFirstSkipped(r, seq) ==
  IF seq = <<>> \/ updates[Head(seq)].expirationTime < r THEN seq
  ELSE FromFirstSkipped(r, Tail(seq))

Max(S) == CHOOSE x \in S : \A y \in S : y <= x

\* A step of processUpdateQueue, its threshold, and the lists it starts from.
ProcessStep == lastOp'.op = "processUpdateQueue"
Threshold == lastOp'.arg
PreNormal == NormalList(updates, queues[WIPQueue])
PreCaptured ==
  IF fibers[WorkInProgress].alternate # Null /\ WIPQueue = fibers[Current].updateQueue
  THEN <<>>   \* the pass runs on a clone, whose captured list is empty
  ELSE CapturedList(updates, queues[WIPQueue])
PostQueue == queues'[fibers'[WorkInProgress].updateQueue]

\* ------------------------------------------------------------- claims
\* One pass over a fresh queue holding updates 1..n in insertion order.
RECURSIVE EnqueueAll(_, _, _)
EnqueueAll(h, from, n) ==
  IF from > n THEN h ELSE EnqueueAll(enqueueUpdate(h, WorkInProgress, from), from + 1, n)

SinglePass(r) ==
  LET h0 == [Store EXCEPT
               !.updates = [i \in UpdateIds |->
                              [updates[i] EXCEPT !.next = Null, !.nextEffect = Null]],
               !.fibers = [f \in FiberIds |->
                             [Fiber(Null) EXCEPT !.memoizedState =
                                                    fibers[Current].memoizedState]]]
      h1 == EnqueueAll(h0, 1, nUpdates)
  IN processUpdateQueue(h1, WorkInProgress, h1.fibers[WorkInProgress].updateQueue, r)
       .fibers[WorkInProgress].memoizedState

\* C1: after a pass at a threshold that admits every update enqueued so far
\* (by enqueueUpdate), whatever passes at other thresholds came before it,
\* memoizedState is what one pass over the same updates in insertion order gives.
C1_Convergence ==
  ( /\ lastOp.op = "processUpdateQueue"
    /\ captured = {}
    /\ \A i \in 1..nUpdates : updates[i].expirationTime >= lastOp.arg )
  => fibers[WorkInProgress].memoizedState = SinglePass(lastOp.arg)

C1_Witness ==
  /\ lastOp.op = "processUpdateQueue"
  /\ captured = {}
  /\ rebased
  /\ nUpdates = MaxUpdates
  /\ \A i \in 1..nUpdates : updates[i].expirationTime >= lastOp.arg
  /\ \E i \in 1..nUpdates : updates[i].expirationTime > lastOp.arg
  /\ Len(fibers[WorkInProgress].memoizedState.s) >= 2

\* C4: memoizedState after a pass is the queue's baseState with exactly the
\* admitted updates applied in list order, normal list first, then captured.
C4_FoldResult ==
  [][ProcessStep =>
       fibers'[WorkInProgress].memoizedState =
         ApplyAll(queues[WIPQueue].baseState,
                  AdmittedAt(Threshold, PreNormal \o PreCaptured))]_qvars

C4_Witness ==
  /\ lastOp.op = "processUpdateQueue"
  /\ WIPQueue # Null
  /\ queues[WIPQueue].firstUpdate # Null
  /\ queues[WIPQueue].firstCapturedUpdate # Null
  /\ Len(fibers[WorkInProgress].memoizedState.s) >= 1

\* C5: the remaining expirationTime after a pass is the maximum over the
\* updates the pass skipped in either list, NoWork if it skipped none.
C5_RemainingExpiration ==
  [][ProcessStep =>
       fibers'[WorkInProgress].expirationTime =
         Max({NoWork} \cup {updates[i].expirationTime :
                              i \in Range(SkippedAt(Threshold, PreNormal \o PreCaptured))})]_qvars

\* A pass that skipped a normal update and a captured update of different
\* expiration times, the later one first.
C5_Witness ==
  /\ lastOp.op = "processUpdateQueue"
  /\ queues[WIPQueue].firstUpdate # Null
  /\ queues[WIPQueue].firstCapturedUpdate # Null
  /\ updates[queues[WIPQueue].firstUpdate].expirationTime
       < updates[queues[WIPQueue].firstCapturedUpdate].expirationTime
  /\ fibers[WorkInProgress].expirationTime
       = updates[queues[WIPQueue].firstCapturedUpdate].expirationTime

C3_SkipRebaseStep ==
  LET r == Threshold
      skipped == SkippedAt(r, PreNormal)
      base == queues[WIPQueue].baseState
      exampleQueue ==
        /\ PreNormal = <<1, 2, 3, 4>>
        /\ PreCaptured = <<>>
        /\ base = EmptyState
        /\ [i \in 1..4 |-> updates[i].expirationTime] = <<1, 2, 1, 2>>
  IN
  /\ skipped # <<>> =>
       /\ PostQueue.firstUpdate = Head(skipped)
       /\ PostQueue.baseState = ApplyAll(base, BeforeFirstSkipped(r, PreNormal))
       /\ NormalList(updates', PostQueue) = FromFirstSkipped(r, PreNormal)
  /\ (skipped = <<>> /\ SkippedAt(r, PreCaptured) = <<>>) =>
       /\ PostQueue.baseState = fibers'[WorkInProgress].memoizedState
       /\ PostQueue.firstUpdate = Null
  /\ (exampleQueue /\ r = 2) =>
       /\ fibers'[WorkInProgress].memoizedState.s = <<2, 4>>
       /\ PostQueue.baseState = EmptyState
       /\ NormalList(updates', PostQueue) = <<1, 2, 3, 4>>
  /\ (exampleQueue /\ r = 1) =>
       fibers'[WorkInProgress].memoizedState.s = <<1, 2, 3, 4>>

\* C3: a pass that skips an update of the normal list makes the first skipped
\* update the head of the list and the accumulator before it the base state,
\* and keeps every later update in the list; a pass that skips nothing makes
\* its result the base state.  The example: base '', A(1) B(2) C(1) D(2).
C3_SkipRebase == [][ProcessStep => C3_SkipRebaseStep]_qvars

\* The example after its second pass: 'ABCD', reached through a pass that
\* skipped an update and applied a later one.
C3_Witness ==
  /\ lastOp.op = "processUpdateQueue"
  /\ lastOp.arg = 1
  /\ rebased
  /\ captured = {}
  /\ [i \in 1..4 |-> updates[i].expirationTime] = <<1, 2, 1, 2>>
  /\ fibers[WorkInProgress].memoizedState.s = <<1, 2, 3, 4>>

InBase(q, u) == u \in Range(folded[q])
Pending(q, u) ==
  u \in Range(NormalList(updates, queues[q])) \cup Range(CapturedList(updates, queues[q]))

\* C2: every enqueued update is, for each generation's queue, either folded
\* into the queue's baseState or still reachable from firstUpdate or
\* firstCapturedUpdate, and not both (captured updates: the work-in-progress
\* queue only).
C2_NoLoss ==
  \A f \in LiveFibers :
    fibers[f].updateQueue # Null =>
      \A u \in 1..nUpdates :
        (u \notin captured \/ f = WorkInProgress) =>
          (InBase(fibers[f].updateQueue, u) # Pending(fibers[f].updateQueue, u))

\* The same for the updates enqueued by enqueueUpdate alone.
C2_NoLossNormal ==
  \A f \in LiveFibers :
    fibers[f].updateQueue # Null =>
      \A u \in (1..nUpdates) \ captured :
        (InBase(fibers[f].updateQueue, u) # Pending(fibers[f].updateQueue, u))

WellFormedList(q) ==
  LET list == NormalList(updates, queues[q]) IN
  /\ Cardinality(Range(list)) = Len(list)
  /\ Len(list) <= nUpdates
  /\ (queues[q].firstUpdate = Null) = (queues[q].lastUpdate = Null)
  /\ list # <<>> =>
       /\ queues[q].lastUpdate = list[Len(list)]
       /\ updates[queues[q].lastUpdate].next = Null

\* C6: every update is linked into the normal list once, lastUpdate is the
\* last node reachable from firstUpdate, and two distinct non-empty queues
\* have the same lastUpdate.
C6_StructuralSharing ==
  /\ \A f \in LiveFibers : fibers[f].updateQueue # Null => WellFormedList(fibers[f].updateQueue)
  /\ \A u \in 1..nUpdates : Cardinality({v \in 1..nUpdates : updates[v].next = u}) <= 1
  /\ LET q1 == fibers[Current].updateQueue
         q2 == fibers[WorkInProgress].updateQueue
     IN (q1 # Null /\ q2 # Null /\ q1 # q2
         /\ queues[q1].firstUpdate # Null /\ queues[q2].firstUpdate # Null)
        => queues[q1].lastUpdate = queues[q2].lastUpdate

\* An update was appended to two distinct non-empty queues, of which the
\* work-in-progress one has rebased past the head of the current one.
C6_Witness ==
  LET q1 == fibers[Current].updateQueue
      q2 == fibers[WorkInProgress].updateQueue
  IN /\ lastOp.op = "enqueueUpdate"
     /\ q1 # Null /\ q2 # Null /\ q1 # q2
     /\ Len(NormalList(updates, queues[q1])) >= 3
     /\ Len(NormalList(updates, queues[q2])) = 2
     /\ queues[q1].lastUpdate = lastOp.arg /\ queues[q2].lastUpdate = lastOp.arg

CommitStep == lastOp'.op = "commitUpdateQueue"

C7_AtMostOnce ==
  \A i, j \in DOMAIN called : called[i].id = called[j].id => i = j

\* C7: no callback is invoked twice, and a commit ends with an exception
\* exactly when the callback it invoked last threw.
C7_CallbackOnce ==
  [][ /\ C7_AtMostOnce'
      /\ CommitStep =>
           (lastOp'.thrown =
              (Len(called') > Len(called) /\ called'[Len(called')].callback = "throw")) ]_qvars

\* A commit that a callback made throw was called again, and the second call
\* ran the callback of a later update.
C7_Witness ==
  /\ lastOp.op = "commitUpdateQueue"
  /\ ~lastOp.thrown
  /\ Len(called) >= 2
  /\ called[1].callback = "throw"
  /\ called[Len(called)].callback = "enqueue"

NewlyCalled == [i \in 1..(Len(called') - Len(called)) |-> called'[Len(called) + i].id]

IsSubsequence(a, b) ==
  \E pos \in [DOMAIN a -> DOMAIN b] :
    /\ \A i \in DOMAIN a : b[pos[i]] = a[i]
    /\ \A i, j \in DOMAIN a : i < j => pos[i] < pos[j]

C8_CommitStep ==
  /\ IsSubsequence(lastFold.applied, NewlyCalled)
  /\ Range(NewlyCalled) \cap lastFold.skipped = {}
  /\ PostQueue.firstEffect = Null /\ PostQueue.lastEffect = Null
  /\ PostQueue.firstCapturedEffect = Null /\ PostQueue.lastCapturedEffect = Null

\* C8: a commit invokes the callbacks of the updates the preceding pass
\* applied, in the order it applied them, none of an update that pass
\* skipped, and leaves the four effect pointers null.
C8_CommitOrder == [][CommitStep => C8_CommitStep]_qvars

C9_CommitStep ==
  (lastOp.op = "processUpdateQueue" /\ queues[WIPQueue].firstCapturedUpdate # Null) =>
    /\ Range(CapturedList(updates, queues[WIPQueue]))
         \subseteq Range(NormalList(updates', PostQueue))
    /\ PostQueue.firstCapturedUpdate = Null
    /\ PostQueue.lastCapturedUpdate = Null

\* C9: captured updates that a pass skipped are appended to the normal list
\* by the commit that follows it, whatever the state of the normal list, and
\* the captured list is emptied.
C9_CapturedKept == [][CommitStep => C9_CommitStep]_qvars

(***************************************************************************)
(* The scheduler (lines 662-1163).  Callback nodes live in a heap indexed  *)
(* by integers; the host adapter is the injected one (lines 1255-1261):    *)
(* it holds at most one request, and reports the time slice exhausted once *)
(* the clock reaches the frame deadline.                                   *)
(***************************************************************************)
MaxNodes == 3            \* callback nodes that may be allocated
MaxTime == 2             \* the clock runs from 0 to MaxTime

ImmediatePriority == 1
UserBlockingPriority == 2
NormalPriority == 3
LowPriority == 4
IdlePriority == 5
maxSigned31BitInt == 1073741823
IMMEDIATE_PRIORITY_TIMEOUT == -1
USER_BLOCKING_PRIORITY == 250
NORMAL_PRIORITY_TIMEOUT == 5000
LOW_PRIORITY_TIMEOUT == 10000
IDLE_PRIORITY == maxSigned31BitInt
enableSchedulerDebugging == TRUE

NodeIds == 1..MaxNodes
NoTimeout == -2          \* no options.timeout given


\* What a scheduled callback does when it is invoked:
\*   "ret"       returns undefined
\*   "cont"      returns a function, which itself is a "ret" callback
\*   "sched"     calls unstable_scheduleCallback(ret, {timeout: 0})
\*   "cancel"    calls unstable_cancelCallback on the head of the pending list
\*   "throw"     throws
\*   "tick"      takes one unit of time
\*   "immediate" calls unstable_runWithPriority(ImmediatePriority, f), f
\*               scheduling a "ret" callback
\*   "cancelSelf" calls unstable_cancelCallback on its own node, then returns
\*               a function, which itself is a "ret" callback
\*   "yield"     calls unstable_shouldYield
\*   "schedYield" calls unstable_scheduleCallback(ret, {timeout: 0}), then
\*               unstable_shouldYield
Behaviours == {"ret", "cont", "sched", "cancel", "throw", "tick", "immediate",
               "cancelSelf", "yield", "schedYield"}

CallbackNode(callback, priorityLevel, expirationTime) ==
  [callback |-> callback, priorityLevel |-> priorityLevel,
   expirationTime |-> expirationTime, next |-> Null, previous |-> Null]

NoNode == CallbackNode("ret", NormalPriority, 0)

Sched == [nodes |-> nodes, nNodes |-> nNodes, firstCallbackNode |-> firstCallbackNode,
          currentDidTimeout |-> currentDidTimeout, isSchedulerPaused |-> isSchedulerPaused,
          currentPriorityLevel |-> currentPriorityLevel,
          currentEventStartTime |-> currentEventStartTime,
          currentExpirationTime |-> currentExpirationTime,
          isExecutingCallback |-> isExecutingCallback,
          isHostCallbackScheduled |-> isHostCallbackScheduled,
          host |-> host, now |-> now, ran |-> ran, hostLog |-> <<>>, thrown |-> FALSE,
          returned |-> FALSE, draining |-> FALSE, parentOf |-> parentOf,
          cancelled |-> cancelled, inserted |-> <<>>, yields |-> <<>>, flushLog |-> <<>>]

\* ----------------------------------------------------------- host adapter
getCurrentTime(S) == S.now

\* The fallback host (lines 1262-1295), chosen when there is no window or no
\* MessageChannel: host.naive.  host.callback is _callback # null, host.timers
\* the functions passed to setTimeout(f, 0, ...) that have not run yet, in
\* the order of the calls.  host.owed (history) is TRUE from a call of
\* requestHostCallback by the scheduler until the callback is called or
\* cancelHostCallback is called.
setTimeoutRequestHostCallback(h) ==
  IF h.callback
  THEN [h EXCEPT !.timers = Append(@, "requestHostCallback")]
  ELSE [h EXCEPT !.callback = TRUE, !.timers = Append(@, "_flushCallback")]

setTimeoutCancelHostCallback(h) == [h EXCEPT !.callback = FALSE]

requestHostCallback(S, expirationTime) ==
  IF S.host.naive
  THEN [S EXCEPT !.host = [setTimeoutRequestHostCallback(S.host) EXCEPT !.owed = TRUE],
                 !.hostLog = Append(@, "request")]
  ELSE [S EXCEPT !.host.armed = TRUE, !.host.timeout = expirationTime,
                 !.hostLog = Append(@, "request")]

cancelHostCallback(S) ==
  IF S.host.naive
  THEN [S EXCEPT !.host = [setTimeoutCancelHostCallback(S.host) EXCEPT !.owed = FALSE],
                 !.hostLog = Append(@, "cancel")]
  ELSE [S EXCEPT !.host.armed = FALSE, !.hostLog = Append(@, "cancel")]

shouldYieldToHost(S) ==
  IF S.host.naive THEN FALSE ELSE S.host.frameDeadline <= getCurrentTime(S)

\* -------------------------------------------------------------- scheduler
\* ensureHostCallbackIsScheduled, lines 712-740.
ensureHostCallbackIsScheduled(S) ==
  IF S.isExecutingCallback THEN S
  ELSE
    LET expirationTime == S.nodes[S.firstCallbackNode].expirationTime
        S1 == IF ~S.isHostCallbackScheduled
              THEN [S EXCEPT !.isHostCallbackScheduled = TRUE]
              ELSE cancelHostCallback(S)
    IN requestHostCallback(S1, expirationTime)

\* The first node, from `node` round to firstCallbackNode, whose expiration
\* is later (or, for a continuation, not earlier) than expirationTime; Null
\* if the loop ends without one (lines 1071-1082, 804-814).
RECURSIVE FindNext(_, _, _, _)
FindNext(S, node, expirationTime, orEqual) ==
  IF \/ S.nodes[node].expirationTime > expirationTime
     \/ (orEqual /\ S.nodes[node].expirationTime = expirationTime)
  THEN node
  ELSE IF S.nodes[node].next = S.firstCallbackNode THEN Null
       ELSE FindNext(S, S.nodes[node].next, expirationTime, orEqual)

\* Lines 1105-1108 and 826-829: link newNode in front of next.
InsertBefore(S, newNode, next) ==
  [S EXCEPT !.nodes[S.nodes[next].previous].next = newNode,
            !.nodes[newNode].previous = S.nodes[next].previous,
            !.nodes[newNode].next = next,
            !.nodes[next].previous = newNode]

\* Variant: a new head is linked without asking the host for a callback.
linkNodeWithoutRequest(S, newNode, found) ==
  IF found = Null
  THEN InsertBefore(S, newNode, S.firstCallbackNode)
  ELSE IF found = S.firstCallbackNode
       THEN InsertBefore([S EXCEPT !.firstCallbackNode = newNode], newNode, found)
       ELSE InsertBefore(S, newNode, found)

\* Lines 1088-1108 and 816-829: link newNode where the search loop ended.
linkNode(S, newNode, found) ==
  IF found = Null
  THEN InsertBefore(S, newNode, S.firstCallbackNode)
  ELSE IF found = S.firstCallbackNode
       THEN InsertBefore(ensureHostCallbackIsScheduled([S EXCEPT !.firstCallbackNode = newNode]),
                         newNode, found)
       ELSE InsertBefore(S, newNode, found)

PriorityTimeout(priorityLevel) ==
  CASE priorityLevel = ImmediatePriority -> IMMEDIATE_PRIORITY_TIMEOUT
    [] priorityLevel = UserBlockingPriority -> USER_BLOCKING_PRIORITY
    [] priorityLevel = IdlePriority -> IDLE_PRIORITY
    [] priorityLevel = LowPriority -> LOW_PRIORITY_TIMEOUT
    [] OTHER -> NORMAL_PRIORITY_TIMEOUT

\* Variant: the expiration time counted from the current time also inside an
\* event handler.
newExpirationTimeFromNow(S, timeout) ==
  getCurrentTime(S)
  + (IF timeout # NoTimeout THEN timeout ELSE PriorityTimeout(S.currentPriorityLevel))

\* Lines 1020-1049: the expiration time of a new callback.
newExpirationTime(S, timeout) ==
  (IF S.currentEventStartTime # -1 THEN S.currentEventStartTime ELSE getCurrentTime(S))
  + (IF timeout # NoTimeout THEN timeout ELSE PriorityTimeout(S.currentPriorityLevel))

\* Variant: insert newNode in front of the nodes of equal expiration.
insertNewNodeBeforeEqual(S, newNode) ==
  IF S.firstCallbackNode = Null
  THEN ensureHostCallbackIsScheduled(
         [S EXCEPT !.firstCallbackNode = newNode,
                   !.nodes[newNode].next = newNode, !.nodes[newNode].previous = newNode])
  ELSE linkNode(S, newNode,
                FindNext(S, S.firstCallbackNode, S.nodes[newNode].expirationTime, TRUE))

\* Lines 1064-1109: insert newNode, behind the nodes of equal expiration.
insertNewNode(S, newNode) ==
  IF S.firstCallbackNode = Null
  THEN ensureHostCallbackIsScheduled(
         [S EXCEPT !.firstCallbackNode = newNode,
                   !.nodes[newNode].next = newNode, !.nodes[newNode].previous = newNode])
  ELSE linkNode(S, newNode,
                FindNext(S, S.firstCallbackNode, S.nodes[newNode].expirationTime, FALSE))

\* unstable_scheduleCallback, lines 1019-1112.  The node returned is S.nNodes
\* of the result.
unstable_scheduleCallback(S, callback, timeout) ==
  insertNewNode(
    [S EXCEPT !.nNodes = S.nNodes + 1,
              !.nodes[S.nNodes + 1] =
                 CallbackNode(callback, S.currentPriorityLevel, newExpirationTime(S, timeout))],
    S.nNodes + 1)

\* unstable_cancelCallback that does not move firstCallbackNode off the node
\* it removes.
cancelCallbackKeepingFirst(S, callbackNode) ==
  LET next == S.nodes[callbackNode].next IN
  IF next = Null THEN S
  ELSE
    LET S1 == IF next = callbackNode
              THEN [S EXCEPT !.firstCallbackNode = Null]
              ELSE LET previous == S.nodes[callbackNode].previous
                       Sa == [S EXCEPT !.nodes[previous].next = next]
                   IN [Sa EXCEPT !.nodes[next].previous = previous]
    IN [S1 EXCEPT !.nodes[callbackNode].next = Null, !.nodes[callbackNode].previous = Null,
                  !.cancelled = @ \cup {callbackNode}]

\* unstable_cancelCallback, lines 1129-1150.
unstable_cancelCallback(S, callbackNode) ==
  LET next == S.nodes[callbackNode].next IN
  IF next = Null THEN S
  ELSE
    LET S1 == IF next = callbackNode
              THEN [S EXCEPT !.firstCallbackNode = Null]
              ELSE LET S0 == IF callbackNode = S.firstCallbackNode
                             THEN [S EXCEPT !.firstCallbackNode = next] ELSE S
                       previous == S0.nodes[callbackNode].previous
                       Sa == [S0 EXCEPT !.nodes[previous].next = next]
                   IN [Sa EXCEPT !.nodes[next].previous = previous]
    IN [S1 EXCEPT !.nodes[callbackNode].next = Null, !.nodes[callbackNode].previous = Null,
                  !.cancelled = @ \cup {callbackNode}]

\* Variant: unlink the head without clearing its own links.
unlinkFirstKeepingLinks(S) ==
  LET flushedNode == S.firstCallbackNode
      next == S.nodes[flushedNode].next
  IN IF flushedNode = next
     THEN [S EXCEPT !.firstCallbackNode = Null]
     ELSE LET lastCallbackNode == S.nodes[flushedNode].previous
              Sa == [S EXCEPT !.firstCallbackNode = next,
                              !.nodes[lastCallbackNode].next = next]
          IN [Sa EXCEPT !.nodes[next].previous = lastCallbackNode]

\* Lines 743-762: unlink the head.
unlinkFirst(S) ==
  LET flushedNode == S.firstCallbackNode
      next == S.nodes[flushedNode].next
      S1 == IF flushedNode = next
            THEN [S EXCEPT !.firstCallbackNode = Null]
            ELSE LET lastCallbackNode == S.nodes[flushedNode].previous
                     Sa == [S EXCEPT !.firstCallbackNode = next,
                                     !.nodes[lastCallbackNode].next = next]
                 IN [Sa EXCEPT !.nodes[next].previous = lastCallbackNode]
  IN [S1 EXCEPT !.nodes[flushedNode].next = Null, !.nodes[flushedNode].previous = Null]

\* Variant: insert continuationNode behind the nodes of equal expiration.
insertContinuationNodeAfterEqual(S, continuationNode) ==
  IF S.firstCallbackNode = Null
  THEN [S EXCEPT !.firstCallbackNode = continuationNode,
                 !.nodes[continuationNode].next = continuationNode,
                 !.nodes[continuationNode].previous = continuationNode]
  ELSE linkNode(S, continuationNode,
                FindNext(S, S.firstCallbackNode, S.nodes[continuationNode].expirationTime, FALSE))

\* Lines 800-830: insert continuationNode, in front of the nodes of equal
\* expiration.
insertContinuationNode(S, continuationNode) ==
  IF S.firstCallbackNode = Null
  THEN [S EXCEPT !.firstCallbackNode = continuationNode,
                 !.nodes[continuationNode].next = continuationNode,
                 !.nodes[continuationNode].previous = continuationNode]
  ELSE linkNode(S, continuationNode,
                FindNext(S, S.firstCallbackNode, S.nodes[continuationNode].expirationTime, TRUE))

\* Lines 787-831: schedule the continuation a callback returned.
insertContinuation(S, priorityLevel, expirationTime) ==
  insertContinuationNode(
    [S EXCEPT !.nNodes = S.nNodes + 1,
              !.nodes[S.nNodes + 1] = CallbackNode("ret", priorityLevel, expirationTime)],
    S.nNodes + 1)

\* Variant: yield also to a head that expires together with the callback
\* that is running.
shouldYieldOnEqual(S) ==
  /\ ~S.currentDidTimeout
  /\ \/ /\ S.firstCallbackNode # Null
        /\ S.nodes[S.firstCallbackNode].expirationTime <= S.currentExpirationTime
     \/ shouldYieldToHost(S)

\* unstable_shouldYield, lines 1156-1163.
unstable_shouldYield(S) ==
  /\ ~S.currentDidTimeout
  /\ \/ /\ S.firstCallbackNode # Null
        /\ S.nodes[S.firstCallbackNode].expirationTime < S.currentExpirationTime
     \/ shouldYieldToHost(S)

\* The pending list, from firstCallbackNode along next.
RECURSIVE NodesFrom(_, _, _)
NodesFrom(S, node, fuel) ==
  IF fuel = 0 \/ node = Null THEN <<>>
  ELSE <<node>> \o (IF S.nodes[node].next = S.firstCallbackNode THEN <<>>
                    ELSE NodesFrom(S, S.nodes[node].next, fuel - 1))

PendingList(S) == NodesFrom(S, S.firstCallbackNode, S.nNodes)

\* The node whose callback is running.
Running(S) == S.ran[Len(S.ran)]

\* History: the node just allocated is the continuation of flushedNode.
recordContinuation(S, flushedNode) ==
  [S EXCEPT !.parentOf[S.nNodes] = flushedNode,
            !.inserted = Append(@, [node |-> S.nNodes, order |-> PendingList(S)])]

\* History: what unstable_shouldYield answered, and the state it was asked in.
recordYield(S, answer) ==
  [S EXCEPT !.yields = Append(@, [node |-> Running(S), answer |-> answer,
                                  draining |-> S.draining, head |-> S.firstCallbackNode,
                                  time |-> S.now, frameDeadline |-> S.host.frameDeadline])]

\* A callback calls unstable_shouldYield.
askShouldYield(S) == recordYield(S, unstable_shouldYield(S))

RECURSIVE flushFirstCallback(_)
RECURSIVE flushImmediateWork(_)
RECURSIVE unstable_runWithPriority(_, _, _)
RECURSIVE invoke(_, _)

\* The call callback() of line 778, by the behaviour of the callback.  A
\* callback that would allocate a node when none is left just returns.
\* Returns the store, with .thrown set if the callback threw, and .returned
\* TRUE if it returned a function.
invoke(S, callback) ==
  CASE callback = "cont" /\ S.nNodes < MaxNodes -> [S EXCEPT !.returned = TRUE]
    [] callback = "sched" /\ S.nNodes < MaxNodes ->
         unstable_scheduleCallback([S EXCEPT !.returned = FALSE], "ret", 0)
    [] callback = "cancel" /\ S.firstCallbackNode # Null ->
         unstable_cancelCallback([S EXCEPT !.returned = FALSE], S.firstCallbackNode)
    [] callback = "throw" -> [S EXCEPT !.returned = FALSE, !.thrown = TRUE]
    [] callback = "tick" /\ S.now < MaxTime -> [S EXCEPT !.returned = FALSE, !.now = @ + 1]
    [] callback = "immediate" /\ S.nNodes < MaxNodes ->
         unstable_runWithPriority([S EXCEPT !.returned = FALSE], ImmediatePriority, "sched")
    [] callback = "cancelSelf" /\ S.nNodes < MaxNodes ->
         [unstable_cancelCallback(S, Running(S)) EXCEPT !.returned = TRUE]
    [] callback = "yield" -> askShouldYield([S EXCEPT !.returned = FALSE])
    [] callback = "schedYield" /\ S.nNodes < MaxNodes ->
         askShouldYield(unstable_scheduleCallback([S EXCEPT !.returned = FALSE], "ret", 0))
    [] OTHER -> [S EXCEPT !.returned = FALSE]

\* Variant: the priority and the expiration time are restored only when the
\* callback returns.
afterCallbackWithoutFinally(S, flushedNode, previousPriorityLevel, previousExpirationTime) ==
  IF S.thrown THEN S
  ELSE IF S.returned
       THEN recordContinuation(
              insertContinuation([S EXCEPT !.currentPriorityLevel = previousPriorityLevel,
                                           !.currentExpirationTime = previousExpirationTime],
                                 S.nodes[flushedNode].priorityLevel,
                                 S.nodes[flushedNode].expirationTime),
              flushedNode)
       ELSE [S EXCEPT !.currentPriorityLevel = previousPriorityLevel,
                      !.currentExpirationTime = previousExpirationTime]

\* Lines 779-831: after callback() of flushedNode, restore the priority and
\* the expiration time saved before it and, unless it threw, schedule the
\* continuation it returned.
afterCallback(S, flushedNode, previousPriorityLevel, previousExpirationTime) ==
  IF S.thrown
  THEN [S EXCEPT !.currentPriorityLevel = previousPriorityLevel,
                 !.currentExpirationTime = previousExpirationTime]
  ELSE IF S.returned
       THEN recordContinuation(
              insertContinuation([S EXCEPT !.currentPriorityLevel = previousPriorityLevel,
                                           !.currentExpirationTime = previousExpirationTime],
                                 S.nodes[flushedNode].priorityLevel,
                                 S.nodes[flushedNode].expirationTime),
              flushedNode)
       ELSE [S EXCEPT !.currentPriorityLevel = previousPriorityLevel,
                      !.currentExpirationTime = previousExpirationTime]

\* Lines 768-832: run the callback of flushedNode, which is unlinked.
runCallback(S, flushedNode) ==
  afterCallback(invoke([S EXCEPT !.currentPriorityLevel = S.nodes[flushedNode].priorityLevel,
                                 !.currentExpirationTime = S.nodes[flushedNode].expirationTime,
                                 !.ran = Append(@, flushedNode)],
                       S.nodes[flushedNode].callback),
                flushedNode, S.currentPriorityLevel, S.currentExpirationTime)

\* flushFirstCallback, lines 742-832.
flushFirstCallback(S) == runCallback(unlinkFirst(S), S.firstCallbackNode)

ImmediateFirst(S) ==
  /\ S.firstCallbackNode # Null
  /\ S.nodes[S.firstCallbackNode].priorityLevel = ImmediatePriority

\* The loop condition of lines 845-849, and the next iterations.
RECURSIVE whileImmediateFirst(_)
whileImmediateFirst(S) ==
  IF ~S.thrown /\ ImmediateFirst(S) THEN whileImmediateFirst(flushFirstCallback(S)) ELSE S

\* The do-while loop of lines 843-849.
flushImmediateLoop(S) == whileImmediateFirst(flushFirstCallback(S))

\* Variant: a finally block that leaves isHostCallbackScheduled as it is when
\* no work remains.
rearmKeepingFlag(S) ==
  IF S.firstCallbackNode # Null
  THEN ensureHostCallbackIsScheduled(S)
  ELSE S

\* Lines 851-857, 920-928: the finally block that re-arms the host.
rearm(S) ==
  IF S.firstCallbackNode # Null
  THEN ensureHostCallbackIsScheduled(S)
  ELSE [S EXCEPT !.isHostCallbackScheduled = FALSE]

\* An exception that was pending when a finally block started is pending
\* when the block ends, unless the block threw itself.
rethrow(S, thrown) == [S EXCEPT !.thrown = thrown \/ @]

\* flushImmediateWork, lines 834-860.
flushImmediateWork(S) ==
  IF S.currentEventStartTime = -1 /\ ImmediateFirst(S)
  THEN rearm([flushImmediateLoop([S EXCEPT !.isExecutingCallback = TRUE])
                EXCEPT !.isExecutingCallback = FALSE])
  ELSE S

\* The handler "nested", after its inner unstable_runWithPriority returned:
\* unless that threw, it schedules a "ret" callback.
scheduleAfterNested(S) ==
  IF ~S.thrown /\ S.nNodes < MaxNodes
  THEN unstable_scheduleCallback(S, "ret", NoTimeout)
  ELSE S

\* Line 953: the event handler either schedules a "ret" callback ("sched"),
\* or throws ("throw"), or does both ("schedThrow"), or takes one unit of
\* time and then schedules a "ret" callback ("tickSched"), or schedules a
\* "ret" callback with a timeout of 1 ("schedTimeout"), or calls
\* unstable_runWithPriority(ImmediatePriority, f), f scheduling a "ret"
\* callback, and then schedules a "ret" callback itself ("nested").
runEventHandler(S, eventHandler) ==
  CASE eventHandler = "sched" /\ S.nNodes < MaxNodes ->
         unstable_scheduleCallback(S, "ret", NoTimeout)
    [] eventHandler = "schedThrow" /\ S.nNodes < MaxNodes ->
         [unstable_scheduleCallback(S, "ret", NoTimeout) EXCEPT !.thrown = TRUE]
    [] eventHandler = "tickSched" /\ S.nNodes < MaxNodes ->
         unstable_scheduleCallback([S EXCEPT !.now = IF @ < MaxTime THEN @ + 1 ELSE @],
                                   "ret", NoTimeout)
    [] eventHandler = "schedTimeout" /\ S.nNodes < MaxNodes ->
         unstable_scheduleCallback(S, "ret", 1)
    [] eventHandler = "nested" /\ S.nNodes < MaxNodes ->
         scheduleAfterNested(unstable_runWithPriority(S, ImmediatePriority, "sched"))
    [] eventHandler \in {"throw", "schedThrow"} -> [S EXCEPT !.thrown = TRUE]
    [] OTHER -> S

\* Variant: a finally block that leaves currentPriorityLevel at the level of
\* the event handler.
exitEventHandlerKeepingLevel(S, previousPriorityLevel, previousEventStartTime) ==
  rethrow(flushImmediateWork([S EXCEPT !.currentEventStartTime = previousEventStartTime,
                                       !.thrown = FALSE]),
          S.thrown)

\* Lines 954-960: the finally block of unstable_runWithPriority.
exitEventHandler(S, previousPriorityLevel, previousEventStartTime) ==
  rethrow(flushImmediateWork([S EXCEPT !.currentPriorityLevel = previousPriorityLevel,
                                       !.currentEventStartTime = previousEventStartTime,
                                       !.thrown = FALSE]),
          S.thrown)

\* unstable_runWithPriority, lines 935-961.
unstable_runWithPriority(S, level, eventHandler) ==
  exitEventHandler(
    runEventHandler(
      [S EXCEPT !.currentPriorityLevel =
                   IF level \in {ImmediatePriority, UserBlockingPriority, NormalPriority,
                                 LowPriority, IdlePriority}
                   THEN level ELSE NormalPriority,
                !.currentEventStartTime = getCurrentTime(S)],
      eventHandler),
    S.currentPriorityLevel, S.currentEventStartTime)

Paused(S) == enableSchedulerDebugging /\ S.isSchedulerPaused

\* History: a loop of flushWork is about to detach and run the head
\* (loop = "expired" or "sliced"), or the try block has ended (loop = "end").
\* sampled is the current time the loop compares expiration times with.
\* executing is isExecutingCallback at that moment, hostCalls the calls of
\* requestHostCallback and cancelHostCallback made so far by this flushWork.
recordFlush(S, loop, sampled) ==
  [S EXCEPT !.flushLog =
     Append(@, [loop |-> loop, node |-> S.firstCallbackNode,
                expirationTime |-> IF S.firstCallbackNode = Null THEN 0
                                   ELSE S.nodes[S.firstCallbackNode].expirationTime,
                sampled |-> sampled, time |-> S.now,
                exhausted |-> shouldYieldToHost(S), thrown |-> S.thrown,
                executing |-> S.isExecutingCallback, hostCalls |-> S.hostLog])]

recordFlushEnd(S) == recordFlush(S, "end", getCurrentTime(S))

\* The loop condition of lines 895-899, and the next iterations.
RECURSIVE whileExpired(_, _)
whileExpired(S, currentTime) ==
  IF /\ ~S.thrown
     /\ S.firstCallbackNode # Null
     /\ S.nodes[S.firstCallbackNode].expirationTime <= currentTime
     /\ ~Paused(S)
  THEN whileExpired(flushFirstCallback(recordFlush(S, "expired", currentTime)), currentTime)
  ELSE S

\* The inner do-while loop of lines 893-899.
flushExpiredBurst(S, currentTime) ==
  whileExpired(flushFirstCallback(recordFlush(S, "expired", currentTime)), currentTime)

RECURSIVE flushExpired(_)

\* Variant: one burst, without reading the current time again.
flushExpiredOnce(S) ==
  IF /\ S.firstCallbackNode # Null
     /\ ~Paused(S)
     /\ S.nodes[S.firstCallbackNode].expirationTime <= getCurrentTime(S)
  THEN flushExpiredBurst(S, getCurrentTime(S))
  ELSE S

\* The while loop of lines 880-903.
flushExpired(S) ==
  IF /\ ~S.thrown
     /\ S.firstCallbackNode # Null
     /\ ~Paused(S)
     /\ S.nodes[S.firstCallbackNode].expirationTime <= getCurrentTime(S)
  THEN flushExpired(flushExpiredBurst(S, getCurrentTime(S)))
  ELSE S

\* The do-while loop of lines 908-916.
RECURSIVE flushTimeSliced(_)
RECURSIVE whileTimeRemains(_)

\* Variant: the loop goes on until the list is empty.
whilePending(S) ==
  IF ~S.thrown /\ S.firstCallbackNode # Null
  THEN flushTimeSliced(S)
  ELSE S

whileTimeRemains(S) ==
  IF ~S.thrown /\ S.firstCallbackNode # Null /\ ~shouldYieldToHost(S)
  THEN flushTimeSliced(S)
  ELSE S

flushTimeSliced(S) ==
  IF Paused(S) THEN S
  ELSE whileTimeRemains(flushFirstCallback(recordFlush(S, "sliced", getCurrentTime(S))))

\* Lines 877-918: the try block of flushWork.
flushCallbacks(S, didTimeout) ==
  IF didTimeout THEN flushExpired(S)
  ELSE IF S.firstCallbackNode # Null THEN flushTimeSliced(S)
  ELSE S

\* Lines 919-932: the finally block of flushWork.
exitFlushWork(S, previousDidTimeout) ==
  rethrow(flushImmediateWork(rearm([S EXCEPT !.isExecutingCallback = FALSE,
                                             !.currentDidTimeout = previousDidTimeout,
                                             !.draining = FALSE,
                                             !.thrown = FALSE])),
          S.thrown)

\* flushWork, lines 865-933.
flushWork(S, didTimeout) ==
  IF Paused(S) THEN S
  ELSE exitFlushWork(recordFlushEnd(flushCallbacks([S EXCEPT !.isExecutingCallback = TRUE,
                                                             !.currentDidTimeout = didTimeout,
                                                             !.draining = didTimeout],
                                                   didTimeout)),
                     S.currentDidTimeout)

\* unstable_pauseExecution and unstable_continueExecution, lines 1114-1123.
unstable_pauseExecution(S) == [S EXCEPT !.isSchedulerPaused = TRUE]

\* Variant: continuing without asking the host for a callback.
continueExecutionWithoutRequest(S) == [S EXCEPT !.isSchedulerPaused = FALSE]

unstable_continueExecution(S) ==
  LET S1 == [S EXCEPT !.isSchedulerPaused = FALSE] IN
  IF S1.firstCallbackNode # Null THEN ensureHostCallbackIsScheduled(S1) ELSE S1

\* ------------------------------------------------------------ the program
Timeouts == {NoTimeout, 0, 1}
UnknownPriority == 6      \* a level that is none of the five
Levels == {ImmediatePriority, UserBlockingPriority, NormalPriority, LowPriority,
           IdlePriority, UnknownPriority}
Handlers == {"sched", "throw", "schedThrow", "tickSched", "schedTimeout", "nested"}

SOp(op, arg, thrown) == [op |-> op, arg |-> arg, thrown |-> thrown]

SInitWith(naive) ==
  /\ nodes = [n \in NodeIds |-> NoNode]
  /\ nNodes = 0
  /\ firstCallbackNode = Null
  /\ currentDidTimeout = FALSE
  /\ isSchedulerPaused = FALSE
  /\ currentPriorityLevel = NormalPriority
  /\ currentEventStartTime = -1
  /\ currentExpirationTime = -1
  /\ isExecutingCallback = FALSE
  /\ isHostCallbackScheduled = FALSE
  /\ host = [armed |-> FALSE, timeout |-> -1, frameDeadline |-> 0,
             naive |-> naive, callback |-> FALSE, timers |-> <<>>, owed |-> FALSE]
  /\ now = 0
  /\ ran = <<>>
  /\ hostLog = <<>>
  /\ sLastOp = SOp("init", 0, FALSE)
  /\ parentOf = [n \in NodeIds |-> Null]
  /\ cancelled = {}
  /\ inserted = <<>>
  /\ yields = <<>>
  /\ flushLog = <<>>

SInit == SInitWith(FALSE)

SInstall(S, op) ==
  /\ nodes' = S.nodes
  /\ nNodes' = S.nNodes
  /\ firstCallbackNode' = S.firstCallbackNode
  /\ currentDidTimeout' = S.currentDidTimeout
  /\ isSchedulerPaused' = S.isSchedulerPaused
  /\ currentPriorityLevel' = S.currentPriorityLevel
  /\ currentEventStartTime' = S.currentEventStartTime
  /\ currentExpirationTime' = S.currentExpirationTime
  /\ isExecutingCallback' = S.isExecutingCallback
  /\ isHostCallbackScheduled' = S.isHostCallbackScheduled
  /\ host' = S.host
  /\ now' = S.now
  /\ ran' = S.ran
  /\ hostLog' = S.hostLog
  /\ sLastOp' = [op EXCEPT !.thrown = S.thrown]
  /\ parentOf' = S.parentOf
  /\ cancelled' = S.cancelled
  /\ inserted' = S.inserted
  /\ yields' = S.yields
  /\ flushLog' = S.flushLog
  /\ UNCHANGED <<qvars, evars, hvars>>

\* A call of unstable_scheduleCallback outside of any event handler.
ScheduleCallback(behaviours, timeouts) ==
  /\ nNodes < MaxNodes
  /\ \E callback \in behaviours, timeout \in timeouts :
       SInstall(unstable_scheduleCallback(Sched, callback, timeout),
                [op |-> "unstable_scheduleCallback", arg |-> nNodes + 1, thrown |-> FALSE,
                 timeout |-> timeout])

\* A call of unstable_cancelCallback with a node the scheduler handed out.
CancelCallback ==
  \E callbackNode \in 1..nNodes :
    SInstall(unstable_cancelCallback(Sched, callbackNode),
             SOp("unstable_cancelCallback", callbackNode, FALSE))

\* A call of unstable_runWithPriority outside of any callback and of any
\* other event handler.
RunWithPriority(levels, handlers) ==
  /\ ~isExecutingCallback
  /\ \E level \in levels, eventHandler \in handlers :
       SInstall(unstable_runWithPriority(Sched, level, eventHandler),
                [op |-> "unstable_runWithPriority", arg |-> level, thrown |-> FALSE,
                 handler |-> eventHandler])

\* The host runs the callback it was asked to run: flushWork.  It reports a
\* timeout only once the requested time is reached; otherwise it grants a
\* time slice that lasts to frameDeadline.
HostFlush ==
  /\ host.armed
  /\ \/ /\ host.timeout <= now
        /\ SInstall(flushWork([Sched EXCEPT !.host.armed = FALSE], TRUE),
                    SOp("flushWork", 1, FALSE))
     \/ \E frameDeadline \in now..(MaxTime + 1) :
          LET S == flushWork([Sched EXCEPT !.host.armed = FALSE,
                                           !.host.frameDeadline = frameDeadline], FALSE)
          IN SInstall([S EXCEPT !.host.frameDeadline = 0], SOp("flushWork", 0, FALSE))

\* The message handler of the frame-paced host (lines 1337-1385): with no
\* time left in the frame it runs the callback only if the requested timeout
\* has passed, and then with didTimeout = true; with time left it runs it with
\* didTimeout = false.  frameDeadline is what the latest animation frame set.
FrameFlush ==
  /\ host.armed
  /\ \E frameDeadline \in 0..(MaxTime + 1) :
       LET didTimeout == frameDeadline - now <= 0 IN
       /\ didTimeout => (host.timeout # -1 /\ host.timeout <= now)
       /\ LET S == flushWork([Sched EXCEPT !.host.armed = FALSE,
                                           !.host.frameDeadline = frameDeadline],
                             didTimeout)
          IN SInstall([S EXCEPT !.host.frameDeadline = 0],
                      SOp("flushWork", IF didTimeout THEN 1 ELSE 0, FALSE))

\* _flushCallback, lines 1272-1280, called with didTimeout = false.
flushCallbackBySetTimeout(S) ==
  IF S.host.callback
  THEN [flushWork([S EXCEPT !.host.owed = FALSE], FALSE) EXCEPT !.host.callback = FALSE]
  ELSE S

\* A timer of the fallback host fires: the oldest one.  It is either
\* _flushCallback(false) (line 1287) or requestHostCallback(cb) (line 1284).
Timeout ==
  /\ host.naive
  /\ host.timers # <<>>
  /\ LET S == [Sched EXCEPT !.host.timers = Tail(@)] IN
     IF Head(host.timers) = "_flushCallback"
     THEN SInstall(flushCallbackBySetTimeout(S),
                   SOp(IF host.callback THEN "flushWork" ELSE "_flushCallback", 0, FALSE))
     ELSE SInstall([S EXCEPT !.host = setTimeoutRequestHostCallback(S.host)],
                   SOp("requestHostCallback", 0, FALSE))

PauseExecution ==
  /\ ~isSchedulerPaused
  /\ SInstall(unstable_pauseExecution(Sched), SOp("unstable_pauseExecution", 0, FALSE))

ContinueExecution ==
  /\ isSchedulerPaused
  /\ SInstall(unstable_continueExecution(Sched), SOp("unstable_continueExecution", 0, FALSE))

\* Time passes.
Tick ==
  /\ now < MaxTime
  /\ SInstall([Sched EXCEPT !.now = @ + 1], SOp("tick", 0, FALSE))

\* Scheduling, cancelling and flushing.
ListNext(behaviours, timeouts) ==
  \/ ScheduleCallback(behaviours, timeouts)
  \/ CancelCallback
  \/ HostFlush
  \/ Tick

\* Scheduling and flushing under the frame-paced host.
FrameNext(behaviours, timeouts) ==
  \/ ScheduleCallback(behaviours, timeouts)
  \/ FrameFlush
  \/ Tick

\* Scheduling and flushing under the fallback host.
TimeoutNext(behaviours, timeouts) ==
  \/ ScheduleCallback(behaviours, timeouts)
  \/ Timeout
  \/ Tick

\* Scheduling, cancelling, pausing and flushing under the frame-paced host,
\* at one moment in time.
PauseNext(behaviours, timeouts) ==
  \/ ScheduleCallback(behaviours, timeouts)
  \/ CancelCallback
  \/ FrameFlush
  \/ PauseExecution
  \/ ContinueExecution

\* Event handlers, scheduling and flushing.
PriorityNext(behaviours, timeouts, levels, handlers) ==
  \/ ScheduleCallback(behaviours, timeouts)
  \/ RunWithPriority(levels, handlers)
  \/ FrameFlush
  \/ Tick

\* Every operation of the scheduler.
SNext(behaviours, timeouts) ==
  \/ ScheduleCallback(behaviours, timeouts)
  \/ CancelCallback
  \/ RunWithPriority(Levels, Handlers)
  \/ HostFlush
  \/ PauseExecution
  \/ ContinueExecution
  \/ Tick

\* ------------------------------------------------------- expiration times
\* src/index.js, lines 77-166.  An expiration time is a score: the higher, the
\* sooner the deadline.
Never == 1
Sync == maxSigned31BitInt

UNIT_SIZE == 10
MAGIC_NUMBER_OFFSET == maxSigned31BitInt - 1

\* (a / b) | 0 for b > 0: the quotient, truncated towards zero.  ToInt32 is the
\* identity on the quotients that arise from times within the 31-bit range.
TruncDiv(a, b) == IF a >= 0 THEN a \div b ELSE -((-a) \div b)

\* Variant: the offset is the largest score itself.
msToExpirationTimeFromSync(ms) == Sync - TruncDiv(ms, UNIT_SIZE)

\* Variant: the score grows with the time.
msToExpirationTimeAscending(ms) == Never + 1 + TruncDiv(ms, UNIT_SIZE)

\* msToExpirationTime, lines 92-95.
msToExpirationTime(ms) == MAGIC_NUMBER_OFFSET - TruncDiv(ms, UNIT_SIZE)

\* Variant: rounds down to the boundary at or below num.
ceilingWithoutNextBucket(num, precision) == TruncDiv(num, precision) * precision

\* ceiling, lines 103-105.
ceiling(num, precision) == (TruncDiv(num, precision) + 1) * precision

\* computeExpirationBucket, lines 107-125.  Both callers pass multiples of
\* UNIT_SIZE, so the two divisions by UNIT_SIZE are exact.
computeExpirationBucket(currentTime, expirationInMs, bucketSizeMs) ==
  MAGIC_NUMBER_OFFSET -
    ceiling(MAGIC_NUMBER_OFFSET - currentTime + expirationInMs \div UNIT_SIZE,
            bucketSizeMs \div UNIT_SIZE)

LOW_PRIORITY_EXPIRATION == 5000
LOW_PRIORITY_BATCH_SIZE == 250

computeAsyncExpiration(currentTime) ==
  computeExpirationBucket(currentTime, LOW_PRIORITY_EXPIRATION, LOW_PRIORITY_BATCH_SIZE)

\* Line 154: __DEV__ ? 500 : 150.
HIGH_PRIORITY_EXPIRATION(isDev) == IF isDev THEN 500 ELSE 150
HIGH_PRIORITY_BATCH_SIZE == 100

\* Variant: an interactive update gets the low-priority deadline and batch.
computeInteractiveExpirationAsAsync(isDev, currentTime) ==
  computeExpirationBucket(currentTime, LOW_PRIORITY_EXPIRATION, LOW_PRIORITY_BATCH_SIZE)

\* computeInteractiveExpiration, lines 160-166.
computeInteractiveExpiration(isDev, currentTime) ==
  computeExpirationBucket(currentTime, HIGH_PRIORITY_EXPIRATION(isDev),
                          HIGH_PRIORITY_BATCH_SIZE)

\* The times, in ms, the computations are asked about: every MsStep ms from 0
\* over more than one interactive batch window, the times around the end of
\* the first async batch window, and the last times of the 31-bit range.
MsStep == 5
MaxSteps == 22
TopSteps == 3
Times == {m * MsStep : m \in 0..MaxSteps} \cup
         {LOW_PRIORITY_BATCH_SIZE + (m - 1) * MsStep : m \in 0..TopSteps} \cup
         {maxSigned31BitInt - m * MsStep : m \in 0..TopSteps}

NoRequest == [fn |-> "none", ms |-> 0, currentTime |-> Sync, expirationInMs |-> 0,
              bucketSizeMs |-> 0, score |-> Sync]

EInitFrom(builds) ==
  /\ dev \in builds
  /\ request = NoRequest
  /\ earlier = NoRequest

EInit == EInitFrom({FALSE})

\* The current time of the renderer: msToExpirationTime(now).
MsToExpirationTime ==
  \E ms \in Times :
    /\ request' = [fn |-> "msToExpirationTime", ms |-> ms,
                   currentTime |-> msToExpirationTime(ms),
                   expirationInMs |-> 0, bucketSizeMs |-> 0,
                   score |-> msToExpirationTime(ms)]
    /\ earlier' = request
    /\ UNCHANGED <<dev, qvars, svars, hvars>>

ComputeAsyncExpiration ==
  \E ms \in Times :
    LET currentTime == msToExpirationTime(ms) IN
    /\ request' = [fn |-> "computeAsyncExpiration", ms |-> ms,
                   currentTime |-> currentTime,
                   expirationInMs |-> LOW_PRIORITY_EXPIRATION,
                   bucketSizeMs |-> LOW_PRIORITY_BATCH_SIZE,
                   score |-> computeAsyncExpiration(currentTime)]
    /\ earlier' = request
    /\ UNCHANGED <<dev, qvars, svars, hvars>>

ComputeInteractiveExpiration ==
  \E ms \in Times :
    LET currentTime == msToExpirationTime(ms) IN
    /\ request' = [fn |-> "computeInteractiveExpiration", ms |-> ms,
                   currentTime |-> currentTime,
                   expirationInMs |-> HIGH_PRIORITY_EXPIRATION(dev),
                   bucketSizeMs |-> HIGH_PRIORITY_BATCH_SIZE,
                   score |-> computeInteractiveExpiration(dev, currentTime)]
    /\ earlier' = request
    /\ UNCHANGED <<dev, qvars, svars, hvars>>

ENext ==
  \/ MsToExpirationTime
  \/ ComputeAsyncExpiration
  \/ ComputeInteractiveExpiration

\* ------------------------------------------------- the frame-paced host
\* Lines 1323-1328 and 1391-1478.  Times are in milliseconds.
MaxRaf == 100            \* animation frames come until this time
FrameIntervals == {5, 16, 17, 20, 22, 25, 40}

HInit ==
  /\ frame = [frameDeadline |-> 0, previousFrameTime |-> 33, activeFrameTime |-> 33,
              rafTime |-> 0]
  /\ frameTimes = <<>>

\* Line 1429: nextFrameTime.
nextFrameTimeAt(f, rafTime) == rafTime - f.frameDeadline + f.activeFrameTime

\* Lines 1437-1441: the clamp.
atLeast8(nextFrameTime) == IF nextFrameTime < 8 THEN 8 ELSE nextFrameTime

\* animationTick, lines 1391-1478, with scheduledHostCallback # null: the
\* state of the heuristic after the call.
animationTick(f, rafTime) ==
  LET nextFrameTime == nextFrameTimeAt(f, rafTime)
      f1 == IF nextFrameTime < f.activeFrameTime /\ f.previousFrameTime < f.activeFrameTime
            THEN [f EXCEPT !.activeFrameTime =
                             IF atLeast8(nextFrameTime) < f.previousFrameTime
                             THEN f.previousFrameTime ELSE atLeast8(nextFrameTime)]
            ELSE [f EXCEPT !.previousFrameTime = nextFrameTime]
  IN [f1 EXCEPT !.frameDeadline = rafTime + f1.activeFrameTime]

\* The browser calls animationTick, one frame interval after the latest
\* call; with no callback scheduled the call returns at once (lines 1407-1412).
AnimationTick ==
  \E interval \in FrameIntervals, scheduled \in BOOLEAN :
    LET rafTime == frame.rafTime + interval IN
    /\ rafTime <= MaxRaf
    /\ frame' = [(IF scheduled THEN animationTick(frame, rafTime) ELSE frame)
                   EXCEPT !.rafTime = rafTime]
    /\ frameTimes' = IF scheduled
                     THEN <<nextFrameTimeAt(frame, rafTime)>>
                          \o (IF frameTimes = <<>> THEN <<>> ELSE <<frameTimes[1]>>)
                     ELSE frameTimes
    /\ UNCHANGED <<qvars, svars, evars>>

\* --------------------------------------------------------- specifications
\* Folding: a pair of fibers, two base states, updater functions and
\* replacing literals, no callbacks.
FoldInit == QInitFrom(BaseStates, {TRUE}) /\ SInit /\ EInit /\ HInit

FoldSpec == FoldInit /\ [][QNext(UpdateShapes, {"null"}, MaxUpdates)]_vars

\* The four-update example of the header comment (lines 61-80): updates that
\* append a letter, no callbacks.
ExampleInit == QInitFrom({EmptyState}, {TRUE}) /\ SInit /\ EInit /\ HInit

ExampleSpec == ExampleInit /\ [][QNext({<<UpdateState, "fn">>}, {"null"}, ExampleUpdates)]_vars

\* Any sequence of the four operations: one update shape, updates with and
\* without a callback.
ApiInit == QInitFrom({EmptyState}, BOOLEAN) /\ SInit /\ EInit /\ HInit

ApiSpec == ApiInit /\ [][ApiNext({<<UpdateState, "fn">>}, {"null", "ok"}, MaxUpdates)]_vars

\* Callbacks that throw, and callbacks that enqueue an update (and just
\* return once no update object is left).
CallbackInit == QInitFrom({EmptyState}, {TRUE}) /\ SInit /\ EInit /\ HInit

CallbackSpec == CallbackInit /\ [][ApiNext({<<UpdateState, "fn">>}, {"throw", "enqueue"}, MaxUpdates)]_vars

\* enqueueUpdate, processUpdateQueue and commitUpdateQueue only.
SharingInit == QInitFrom({EmptyState}, BOOLEAN) /\ SInit /\ EInit /\ HInit

SharingSpec == SharingInit /\ [][NormalNext({<<UpdateState, "fn">>}, {"null", "enqueue"}, MaxUpdates)]_vars

\* The pending list: scheduling (with the default timeout or with timeout 0),
\* cancelling and flushing, with callbacks that schedule, cancel, return a
\* continuation or take a unit of time.
ListInit == QInitFrom({EmptyState}, {FALSE}) /\ SInit /\ EInit /\ HInit

ListSpec ==
  ListInit /\ [][\/ ScheduleCallback({"ret", "cont", "sched", "cancel", "tick"},
                                    {NoTimeout, 0})
                \/ CancelCallback
                \/ HostFlush]_vars

\* Cancelling: callbacks that cancel the head of the list, and callbacks
\* that cancel their own node and then return a continuation.
CancelInit == QInitFrom({EmptyState}, {FALSE}) /\ SInit /\ EInit /\ HInit

CancelSpec == CancelInit /\ [][ListNext({"ret", "cancel", "cancelSelf"}, {NoTimeout, 0})]_vars

\* Flushing under the frame-paced host, with callbacks that take time and
\* callbacks that schedule a callback that is due at once.
DrainInit == QInitFrom({EmptyState}, {FALSE}) /\ SInit /\ EInit /\ HInit

DrainSpec == DrainInit /\ [][FrameNext({"ret", "tick", "sched"}, {NoTimeout, 0})]_vars

\* Event handlers at a known and at an unknown priority level, that schedule
\* a callback, throw, or run an event handler themselves.
EventInit == QInitFrom({EmptyState}, {FALSE}) /\ SInit /\ EInit /\ HInit

EventSpec ==
  EventInit /\ [][PriorityNext({"ret"}, {NoTimeout},
                               {ImmediatePriority, LowPriority, UnknownPriority},
                               {"sched", "schedThrow", "nested"})]_vars

\* Event handlers at each of the five priority levels, that schedule a
\* callback after a unit of time or schedule one with a timeout of 1;
\* callbacks scheduled outside of them with the default timeout or with a
\* timeout of 1.
PriorityInit == QInitFrom({EmptyState}, {FALSE}) /\ SInit /\ EInit /\ HInit

PrioritySpec ==
  PriorityInit /\ [][\/ ScheduleCallback({"ret"}, {NoTimeout, 1})
                    \/ RunWithPriority(Levels \ {UnknownPriority},
                                       {"tickSched", "schedTimeout"})
                    \/ FrameFlush]_vars

\* Event handlers at ImmediatePriority and at NormalPriority, while callbacks
\* scheduled outside of them are pending.
ImmediateInit == QInitFrom({EmptyState}, {FALSE}) /\ SInit /\ EInit /\ HInit

ImmediateSpec ==
  ImmediateInit /\ [][PriorityNext({"ret", "immediate"}, {NoTimeout, 0},
                                   {ImmediatePriority, NormalPriority},
                                   {"sched", "schedThrow"})]_vars

\* Callbacks that ask unstable_shouldYield, at once or after scheduling a
\* callback that is due, and callbacks that take time, under the frame-paced
\* host.
YieldInit == QInitFrom({EmptyState}, {FALSE}) /\ SInit /\ EInit /\ HInit

YieldSpec == YieldInit /\ [][FrameNext({"yield", "schedYield", "tick"}, {NoTimeout, 0})]_vars

\* The expiration-time calculator alone, in both builds.
ExpirationInit == QInitFrom({EmptyState}, {FALSE}) /\ SInit /\ EInitFrom(BOOLEAN) /\ HInit

ExpirationSpec == ExpirationInit /\ [][ENext]_vars

\* Captured updates: a pair of fibers, renders that restart from the current
\* fiber (the work-in-progress fiber then holds the current fiber's queue
\* object), updates that append a letter, no callbacks.
CaptureInit == QInitFrom({EmptyState}, {TRUE}) /\ SInit /\ EInit /\ HInit

CaptureSpec == CaptureInit /\ [][QNext({<<UpdateState, "fn">>}, {"null"}, MaxUpdates)]_vars

\* The kinds of updates: one fiber that may be about to capture an error,
\* error updates in the captured list, the other kinds in the normal list,
\* folds at every threshold.
KindInit == QInitWith({EmptyState}, {FALSE}, {{}, {"ShouldCapture"}}) /\ SInit /\ EInit /\ HInit

KindSpec == KindInit /\ [][FoldNext(KindShapes, CapturedShapes, {"null"}, MaxUpdates)]_vars

\* Malformed updates: updates with an unknown tag among well-formed ones, in
\* either list of one fiber.
MalformedInit == QInitFrom({EmptyState}, {FALSE}) /\ SInit /\ EInit /\ HInit

MalformedSpec ==
  MalformedInit /\ [][FoldNext(MalformedShapes, MalformedShapes, {"null"}, MaxUpdates)]_vars

\* Payload functions that raise: a pair of fibers, renders that restart from
\* the current fiber, folds at every threshold, commits.
ThrowInit == QInitFrom({EmptyState}, {TRUE}) /\ SInit /\ EInit /\ HInit

ThrowSpec == ThrowInit /\ [][QNext(ThrowingShapes, {"null"}, MaxUpdates)]_vars

\* The expired drain: the frame-paced host, callbacks that return, take one
\* unit of time or schedule another callback, with a timeout of 0 or 1 or
\* with the default timeout of their priority.
ExpiredInit == QInitFrom({EmptyState}, {FALSE}) /\ SInit /\ EInit /\ HInit

ExpiredSpec == ExpiredInit /\ [][FrameNext({"ret", "tick", "sched"}, Timeouts)]_vars

\* The cleanup of a flush: the frame-paced host, callbacks that return,
\* throw, schedule a callback that is due at once, or run an event handler at
\* ImmediatePriority that schedules a callback.
CleanupInit == QInitFrom({EmptyState}, {FALSE}) /\ SInit /\ EInit /\ HInit

CleanupSpec ==
  CleanupInit /\ [][FrameNext({"ret", "throw", "sched", "immediate"}, {NoTimeout, 0})]_vars

\* The same, with a host that eventually runs the callback it was asked for
\* (lines 1337-1385 and 1391-1478: a message is posted on every animation
\* frame while a callback is scheduled).
CleanupFairInit == QInitFrom({EmptyState}, {FALSE}) /\ SInit /\ EInit /\ HInit

\* FrameFlush is enabled exactly when the host holds a request (some frame
\* has time left), and its steps are the steps that end with a flushWork
\* call recorded; HostFairness is WF_vars(FrameFlush) written with these.
HostFairness ==
  \/ []<>(~host.armed)
  \/ []<><<sLastOp'.op = "flushWork">>_vars

CleanupFairSpec ==
  /\ CleanupFairInit
  /\ [][FrameNext({"ret", "throw", "sched", "immediate"}, {NoTimeout, 0})]_vars
  /\ HostFairness

\* Progress: callbacks that return, throw or return a continuation, are
\* cancelled or not, while the scheduler is paused and continued; the host
\* eventually runs the callback it holds a request for, and the scheduler is
\* not paused for ever.
ProgressInit == QInitFrom({EmptyState}, {FALSE}) /\ SInit /\ EInit /\ HInit

ProgressSpec ==
  /\ ProgressInit
  /\ [][PauseNext({"ret", "throw", "cont"}, {NoTimeout, 0})]_vars
  /\ HostFairness
  /\ <>[](~isSchedulerPaused)

\* The fallback host: callbacks that return, throw or schedule a callback.
TimeoutInit == QInitFrom({EmptyState}, {FALSE}) /\ SInitWith(TRUE) /\ EInit /\ HInit

TimeoutSpec ==
  TimeoutInit /\ [][TimeoutNext({"ret", "throw", "sched"}, {NoTimeout, 0})]_vars

\* The frame-rate heuristic of the frame-paced host alone.
AdapterInit == QInitFrom({EmptyState}, {FALSE}) /\ SInit /\ EInit /\ HInit

AdapterSpec == AdapterInit /\ [][AnimationTick]_vars

\* ------------------------------------------------------ the pending list
\* The nodes the scheduler treats as scheduled: next is not null (line 1131).
PendingNodes == {n \in 1..nNodes : nodes[n].next # Null}

\* The node reached from `node` by `steps` steps along next.
RECURSIVE Walk(_, _)
Walk(node, steps) ==
  IF steps = 0 \/ node = Null THEN node ELSE Walk(nodes[node].next, steps - 1)

\* C10: the pending list is a circular doubly-linked list: with N pending
\* nodes, N steps along next from firstCallbackNode lead back to it and pass
\* every pending node, next and previous are inverse of each other,
\* firstCallbackNode is null exactly when N = 0, and a node that was flushed
\* or cancelled has next = previous = null.
C10_ListIntegrity ==
  LET N == Cardinality(PendingNodes) IN
  /\ (firstCallbackNode = Null) <=> (N = 0)
  /\ N > 0 =>
       /\ Walk(firstCallbackNode, N) = firstCallbackNode
       /\ {Walk(firstCallbackNode, k) : k \in 0..(N - 1)} = PendingNodes
  /\ \A n \in PendingNodes :
       /\ nodes[n].previous # Null
       /\ nodes[nodes[n].next].previous = n
       /\ nodes[nodes[n].previous].next = n
  /\ \A n \in (1..nNodes) \ PendingNodes : nodes[n].previous = Null
  /\ \A i \in DOMAIN ran : nodes[ran[i]].next = Null /\ nodes[ran[i]].previous = Null
  /\ sLastOp.op = "unstable_cancelCallback" =>
       nodes[sLastOp.arg].next = Null /\ nodes[sLastOp.arg].previous = Null

\* A flush has run a callback that returned a continuation, and left the
\* continuation and another node pending.
C10_Witness ==
  /\ sLastOp.op = "flushWork"
  /\ Cardinality(PendingNodes) = 2
  /\ \E i \in DOMAIN ran : nodes[ran[i]].callback = "cont"
  /\ nodes[firstCallbackNode].next # firstCallbackNode
  /\ nodes[nodes[firstCallbackNode].next].next = firstCallbackNode

\* ------------------------------------------------------------- ordering
\* The pending nodes in list order.
PendingOrder == PendingList(Sched)

IsContinuation(n) == parentOf[n] # Null

\* C11: along the pending list expirationTime never decreases; of two nodes
\* of equal expirationTime that unstable_scheduleCallback inserted, the one
\* scheduled first comes first; and a node in front of a continuation of the
\* same expirationTime is a continuation that was inserted later.
C11_Ordering ==
  \A i, j \in 1..Len(PendingOrder) :
    i < j =>
      LET x == PendingOrder[i]
          y == PendingOrder[j]
      IN /\ nodes[x].expirationTime <= nodes[y].expirationTime
         /\ nodes[x].expirationTime = nodes[y].expirationTime =>
              /\ (~IsContinuation(x) /\ ~IsContinuation(y)) => x < y
              /\ IsContinuation(y) => (IsContinuation(x) /\ x > y)

\* A continuation at the head of the list, in front of a node of the same
\* expirationTime that was scheduled before it, and a later node behind.
C11_Witness ==
  /\ Len(PendingOrder) = 2
  /\ IsContinuation(PendingOrder[1])
  /\ ~IsContinuation(PendingOrder[2])
  /\ PendingOrder[2] < PendingOrder[1]
  /\ nodes[PendingOrder[1]].expirationTime = nodes[PendingOrder[2]].expirationTime

\* ---------------------------------------------------------- cancellation
Without(seq, n) == SelectSeq(seq, LAMBDA x : x # n)

\* A step that is a call of unstable_cancelCallback by the program.
CancelStep == sLastOp'.op = "unstable_cancelCallback"

C12_CancelStep ==
  LET callbackNode == sLastOp'.arg IN
  /\ ~sLastOp'.thrown
  /\ IF nodes[callbackNode].next = Null
     THEN /\ nodes' = nodes
          /\ firstCallbackNode' = firstCallbackNode
     ELSE /\ PendingOrder' = Without(PendingOrder, callbackNode)
          /\ callbackNode \in Range(PendingOrder)
          /\ \A n \in 1..nNodes :
               /\ nodes'[n].callback = nodes[n].callback
               /\ nodes'[n].expirationTime = nodes[n].expirationTime
               /\ nodes'[n].priorityLevel = nodes[n].priorityLevel
               /\ (n \notin Range(PendingOrder)) => nodes'[n] = nodes[n]

\* C12: unstable_cancelCallback on a node that is not pending (cancelled or
\* flushed before) changes neither firstCallbackNode nor any node and does
\* not throw; on a pending node it removes that node from the list and leaves
\* the other nodes in the list, in the same order.
C12_IdempotentCancel == [][CancelStep => C12_CancelStep]_svars

\* A handle whose callback was flushed has just been cancelled, while two
\* other nodes are pending.
C12_Witness ==
  /\ sLastOp.op = "unstable_cancelCallback"
  /\ sLastOp.arg \in Range(ran)
  /\ Len(PendingOrder) = 2

HasContinuation(n) == \E c \in 1..nNodes : parentOf[c] = n

C13_Invoked ==
  /\ \A n \in cancelled : n \notin Range(ran)
  /\ \A i, j \in DOMAIN ran : i # j => ran[i] # ran[j]
  /\ \A i \in DOMAIN ran :
       nodes[ran[i]].callback = "cancelSelf" =>
         \/ ~HasContinuation(ran[i]) /\ nNodes = MaxNodes
         \/ \E c \in 1..nNodes :
              /\ parentOf[c] = ran[i]
              /\ c \in Range(PendingOrder) \cup Range(ran) \cup cancelled

C13_CancelStep ==
  sLastOp'.arg \in Range(ran) =>
    /\ nodes' = nodes
    /\ firstCallbackNode' = firstCallbackNode
    /\ ran' = ran

\* C13: a node that unstable_cancelCallback took out of the list is never
\* invoked, no node is invoked twice, a callback that cancels its own handle
\* while it runs still gets its continuation scheduled, and cancelling the
\* handle of a callback that has run changes no node, its continuation
\* included.
C13_CancelledNeverInvoked ==
  [](C13_Invoked) /\ [][CancelStep => C13_CancelStep]_svars

\* A callback cancelled its own handle and returned a continuation, which is
\* pending; another node was cancelled while pending; and the handle of the
\* callback that ran has just been cancelled again.
C13_Witness ==
  /\ sLastOp.op = "unstable_cancelCallback"
  /\ sLastOp.arg \in Range(ran)
  /\ nodes[sLastOp.arg].callback = "cancelSelf"
  /\ \E c \in Range(PendingOrder) : parentOf[c] = sLastOp.arg
  /\ cancelled # {}

\* ---------------------------------------------------------- continuations
\* The position of node n in the sequence seq (0 if it is not in it).
IndexOf(seq, n) == IF n \in Range(seq) THEN CHOOSE i \in DOMAIN seq : seq[i] = n ELSE 0

C14_SameScore ==
  \A c \in 1..nNodes :
    IsContinuation(c) =>
      /\ parentOf[c] < c
      /\ nodes[c].priorityLevel = nodes[parentOf[c]].priorityLevel
      /\ nodes[c].expirationTime = nodes[parentOf[c]].expirationTime

C14_InsertedInFront ==
  \A k \in DOMAIN inserted :
    LET c == inserted[k].node
        order == inserted[k].order
    IN /\ c \in Range(order)
       /\ \A i \in DOMAIN order :
            /\ i < IndexOf(order, c) =>
                 nodes[order[i]].expirationTime < nodes[c].expirationTime
            /\ i > IndexOf(order, c) =>
                 nodes[order[i]].expirationTime >= nodes[c].expirationTime

C14_RunsFirst ==
  \A c \in 1..nNodes, p \in Range(ran) :
    ( /\ IsContinuation(c)
      /\ p < c
      /\ nodes[p].expirationTime = nodes[c].expirationTime
      /\ IndexOf(ran, p) > IndexOf(ran, parentOf[c]) )
    => \/ c \in cancelled
       \/ c \in Range(ran) /\ IndexOf(ran, c) < IndexOf(ran, p)

\* C14: the continuation of a callback is a fresh node with the priorityLevel
\* and expirationTime of the node that returned it; right after its insertion
\* every node in front of it expires earlier and every node behind it expires
\* at the same time or later; and, unless it is cancelled, it is invoked
\* before every node of the same expirationTime that was scheduled before it
\* and had not started when it was inserted.
C14_ContinuationPrecedence == C14_SameScore /\ C14_InsertedInFront /\ C14_RunsFirst

\* A callback returned a continuation while an earlier-scheduled node of the
\* same expirationTime was pending; the continuation ran, then that node.
C14_Witness ==
  /\ Len(ran) = 3
  /\ parentOf[ran[2]] = ran[1]
  /\ ran[3] < ran[2]
  /\ nodes[ran[3]].expirationTime = nodes[ran[2]].expirationTime

\* --------------------------------------------------------------- flushing
\* A step in which the host ran flushWork and flushWork returned.
FlushReturned == sLastOp'.op = "flushWork" /\ ~sLastOp'.thrown

\* C15: every node that is pending with expirationTime <= the current time
\* when the host invokes flushWork has been invoked when flushWork returns.
C15_StarvationFreedom ==
  [][FlushReturned =>
       \A n \in Range(PendingOrder) :
         nodes[n].expirationTime <= now => n \in Range(ran')]_svars

\* --------------------------------------------------------- event handlers
\* A step that is a call of unstable_runWithPriority by the program.
RunWithPriorityStep == sLastOp'.op = "unstable_runWithPriority"

\* The level an event handler runs at.
EffectiveLevel(level) ==
  IF level \in {ImmediatePriority, UserBlockingPriority, NormalPriority, LowPriority,
                IdlePriority}
  THEN level ELSE NormalPriority

C16_EventStep ==
  LET level == EffectiveLevel(sLastOp'.arg)
      first == nNodes + 1
  IN /\ currentPriorityLevel' = currentPriorityLevel
     /\ currentEventStartTime' = currentEventStartTime
     /\ sLastOp'.thrown = (sLastOp'.handler = "schedThrow")
     /\ nNodes < MaxNodes =>
          /\ nNodes' > nNodes
          /\ nodes'[first].priorityLevel =
               IF sLastOp'.handler = "nested" THEN ImmediatePriority ELSE level
          /\ (sLastOp'.handler = "nested" /\ first < MaxNodes) =>
               /\ nNodes' > first
               /\ nodes'[first + 1].priorityLevel = level
               /\ nodes'[first + 1].expirationTime = now + PriorityTimeout(level)

\* C16: the callback an event handler schedules records the handler's level
\* (NormalPriority for an unknown level); a callback scheduled after a nested
\* unstable_runWithPriority returned records the outer level and the outer
\* start time; and when the call returns or throws, currentPriorityLevel and
\* currentEventStartTime are what they were before it.
C16_RunWithPriority == [][RunWithPriorityStep => C16_EventStep]_svars

\* An event handler at an unknown level ran an event handler at
\* ImmediatePriority and then scheduled a callback, which is pending at
\* NormalPriority.
C16_Witness ==
  /\ sLastOp.op = "unstable_runWithPriority"
  /\ sLastOp.arg = UnknownPriority
  /\ sLastOp.handler = "nested"
  /\ nNodes >= 2
  /\ nodes[nNodes].priorityLevel = NormalPriority
  /\ nodes[nNodes - 1].priorityLevel = ImmediatePriority
  /\ nNodes \in Range(PendingOrder)

\* C17: when a call of unstable_runWithPriority returns or throws, no node of
\* the pending list has priorityLevel ImmediatePriority.
C17_ImmediateDrained ==
  [][RunWithPriorityStep =>
       \A n \in Range(PendingOrder') : nodes'[n].priorityLevel # ImmediatePriority]_svars

\* ------------------------------------------------------------- yielding
\* C18: to a callback run by the expired-drain of flushWork(true),
\* unstable_shouldYield answers false; to a callback run by flushWork(false)
\* it answers true exactly when the clock has reached frameDeadline or the
\* head of the pending list expires strictly earlier than the callback's own
\* node.
C18_ShouldYield ==
  sLastOp.op = "flushWork" =>
    \A k \in DOMAIN yields :
      LET y == yields[k] IN
      /\ y.draining = (sLastOp.arg = 1)
      /\ y.answer =
           IF y.draining THEN FALSE
           ELSE \/ y.frameDeadline <= y.time
                \/ /\ y.head # Null
                   /\ nodes[y.head].expirationTime < nodes[y.node].expirationTime

\* In one flushWork(false), a callback was told to yield to a more urgent
\* head while the frame had time left, and another was told not to yield to
\* a head that expires with it.
C18_Witness ==
  /\ sLastOp.op = "flushWork"
  /\ sLastOp.arg = 0
  /\ \E k \in DOMAIN yields : yields[k].answer /\ yields[k].frameDeadline > yields[k].time
  /\ \E k \in DOMAIN yields :
       /\ ~yields[k].answer
       /\ yields[k].head # Null
       /\ nodes[yields[k].head].expirationTime = nodes[yields[k].node].expirationTime

\* --------------------------------------------------------- host requests
\* A step that is a call of unstable_scheduleCallback by the program.
ScheduleStep == sLastOp'.op = "unstable_scheduleCallback"

C19_ScheduleStep ==
  /\ (firstCallbackNode' = sLastOp'.arg \/ ~host.armed) =>
       /\ host'.armed
       /\ host'.timeout = nodes'[firstCallbackNode'].expirationTime
  /\ hostLog' \in {<<>>, <<"request">>, <<"cancel", "request">>}
  /\ (host.armed /\ hostLog' # <<>>) => hostLog' = <<"cancel", "request">>

\* C19: a call of unstable_scheduleCallback outside of a flush leaves the
\* host armed with the expirationTime of the head if the new node became the
\* head or the host was not armed before; it issues at most one request;
\* and if the host was armed, it cancels that request before it issues one.
C19_HostArmed == [][ScheduleStep => C19_ScheduleStep]_svars

\* ------------------------------------------------------ expiration times
\* The timeout of each priority level.
DefaultTimeout(level) ==
  CASE level = ImmediatePriority -> -1
    [] level = UserBlockingPriority -> 250
    [] level = NormalPriority -> 5000
    [] level = LowPriority -> 10000
    [] level = IdlePriority -> 1073741823

\* unstable_scheduleCallback called outside of any event handler: the start
\* time is the current time, the ambient priority is NormalPriority.
C20_ScheduleStep ==
  LET newNode == nodes'[sLastOp'.arg] IN
  /\ newNode.priorityLevel = NormalPriority
  /\ newNode.expirationTime =
       now + (IF sLastOp'.timeout # NoTimeout THEN sLastOp'.timeout
              ELSE DefaultTimeout(NormalPriority))

\* unstable_scheduleCallback called by an event handler: the start time is
\* the time the handler started at, the ambient priority is its level.
C20_EventStep ==
  nNodes < MaxNodes =>
    LET newNode == nodes'[nNodes + 1]
        level == sLastOp'.arg
    IN /\ newNode.priorityLevel = level
       /\ newNode.expirationTime =
            now + (IF sLastOp'.handler = "schedTimeout" THEN 1 ELSE DefaultTimeout(level))
       /\ \A urgent \in 1..level :
            now + PriorityTimeout(urgent) <= now + PriorityTimeout(level)

\* C20: the node unstable_scheduleCallback creates records the ambient
\* priority, and its expirationTime is the start time (of the enclosing event
\* handler if there is one, the current time otherwise) plus the timeout
\* given or, if none is given, the timeout of the ambient priority: -1, 250,
\* 5000, 10000, 1073741823; a more urgent priority never gives a later one.
C20_ExpirationTime ==
  [][ /\ ScheduleStep => C20_ScheduleStep
      /\ RunWithPriorityStep => C20_EventStep ]_svars

\* An event handler at IdlePriority that started at time 0 scheduled a
\* callback at time 1; the node is pending with expirationTime 1073741823.
C20_Witness ==
  /\ sLastOp.op = "unstable_runWithPriority"
  /\ sLastOp.arg = IdlePriority
  /\ sLastOp.handler = "tickSched"
  /\ now = 1
  /\ nNodes \in Range(PendingOrder)
  /\ nodes[nNodes].priorityLevel = IdlePriority
  /\ nodes[nNodes].expirationTime = 1073741823

\* ------------------------------------------------------------ C21
Computed(r) == r.fn \in {"computeAsyncExpiration", "computeInteractiveExpiration"}

\* The deadline a computation asks for, as a score, and the width of its
\* batch window, in units of expiration time.
Requested(r) == r.currentTime - r.expirationInMs \div UNIT_SIZE
Bucket(r) == r.bucketSizeMs \div UNIT_SIZE

\* The batch window the requested deadline falls in: windows are counted from
\* time 0, each Bucket(r) units long.
Window(r) == (MAGIC_NUMBER_OFFSET - Requested(r)) \div Bucket(r)

C21_Rounded(r) ==
  /\ r.score <= Requested(r)
  /\ Requested(r) - r.score <= Bucket(r)
  /\ (MAGIC_NUMBER_OFFSET - r.score) % Bucket(r) = 0

C21_SameWindow(r1, r2) ==
  (r1.fn = r2.fn /\ Window(r1) = Window(r2)) => r1.score = r2.score

\* C21: the score computeExpirationBucket returns is never higher than the
\* requested one (current time score minus expirationInMs/10), is at most one
\* bucket (bucketSizeMs/10) below it and lies on a bucket boundary; two
\* requests at the same priority whose requested deadlines fall in the same
\* window get the same score.
C21_Bucketing ==
  /\ Computed(request) => C21_Rounded(request)
  /\ (Computed(request) /\ Computed(earlier)) => C21_SameWindow(earlier, request)

\* Two requests at different times in one window, and the request before the
\* window's boundary differs from the one after it.
C21_Witness ==
  /\ Computed(request) /\ request.fn = earlier.fn
  /\ request.ms > earlier.ms
  /\ Window(request) = Window(earlier)
  /\ request.currentTime < earlier.currentTime
  /\ request.score = earlier.score
  /\ request.score < Requested(request)

\* ------------------------------------------------------------ C22
Asked(r) == r.fn # "none"

\* msToExpirationTime at two times: currentTime is msToExpirationTime(ms).
C22_MsOrder(r1, r2) ==
  /\ r1.ms <= r2.ms => r1.currentTime >= r2.currentTime
  /\ r1.ms \div UNIT_SIZE = r2.ms \div UNIT_SIZE => r1.currentTime = r2.currentTime

\* computeExpirationBucket at two current times, the other arguments equal.
C22_BucketOrder(r1, r2) ==
  (/\ Computed(r1) /\ r1.fn = r2.fn
   /\ r1.currentTime <= r2.currentTime) => r1.score <= r2.score

\* C22: msToExpirationTime is non-increasing in ms, times in the same 10 ms
\* tick map to the same score, and computeExpirationBucket is non-decreasing
\* in its currentTime: a sooner deadline never gets a lower score.
C22_OrderReversing ==
  (Asked(request) /\ Asked(earlier)) =>
     /\ C22_MsOrder(earlier, request) /\ C22_MsOrder(request, earlier)
     /\ C22_BucketOrder(earlier, request) /\ C22_BucketOrder(request, earlier)

\* A later time with a strictly lower current time and a strictly lower
\* computed score, after two times of one tick had the same current time.
C22_Witness ==
  /\ Computed(request) /\ request.fn = earlier.fn
  /\ earlier.ms < request.ms
  /\ earlier.currentTime > request.currentTime
  /\ earlier.score > request.score
  /\ \E ms \in Times : ms # request.ms /\ msToExpirationTime(ms) = request.currentTime

\* ------------------------------------------------------------ C23
C23_Between(score) == Never < score /\ NoWork < score /\ score < Sync

\* The render thresholds: the reserved scores and the computed ones.
C23_Thresholds == {NoWork, Never, Sync, request.currentTime, request.score}

\* C23: every score msToExpirationTime, computeAsyncExpiration and
\* computeInteractiveExpiration produce for a non-negative time of the 31-bit
\* range is strictly below Sync and strictly above Never and NoWork, so
\* processUpdateQueue admits an update tagged Sync at every threshold.
C23_SyncMaximal ==
  Asked(request) =>
     /\ C23_Between(request.currentTime)
     /\ C23_Between(request.score)
     /\ \A renderExpirationTime \in C23_Thresholds : Admits(renderExpirationTime, Sync)
     /\ ~Admits(request.currentTime, Never) /\ ~Admits(Sync, request.score)

\* The extreme cases: time 0 and the last time of the range, each with a
\* computed deadline.
C23_Witness ==
  /\ Computed(request) /\ Computed(earlier)
  /\ earlier.ms = 0 /\ earlier.currentTime = MAGIC_NUMBER_OFFSET
  /\ request.ms = maxSigned31BitInt
  /\ request.score < request.currentTime

\* ------------------------------------------------------------ C24
CurrentQueue == fibers[Current].updateQueue

\* Both generations have a queue object, and they are two objects.
TwoGenerations ==
  /\ fibers[WorkInProgress].alternate # Null
  /\ CurrentQueue # Null /\ WIPQueue # Null /\ CurrentQueue # WIPQueue

C24_Reachable ==
  TwoGenerations =>
    \/ queues[WIPQueue].firstUpdate = Null
    \/ queues[WIPQueue].firstUpdate \in Range(NormalList(updates, queues[CurrentQueue]))

\* The operations whose argument is the work-in-progress fiber or its queue.
OnWorkInProgress ==
  lastOp'.op \in {"processUpdateQueue", "commitUpdateQueue", "enqueueCapturedUpdate"}

C24_CurrentStays ==
  (OnWorkInProgress /\ fibers[WorkInProgress].alternate # Null /\ CurrentQueue # Null) =>
    /\ fibers'[Current].updateQueue = CurrentQueue
    /\ queues'[CurrentQueue].firstUpdate = queues[CurrentQueue].firstUpdate

\* C24: the work-in-progress queue's firstUpdate is null or reachable through
\* next from the current queue's firstUpdate, and no operation on the
\* work-in-progress moves the current queue's firstUpdate.
C24_Generations == [](C24_Reachable) /\ [][C24_CurrentStays]_qvars

\* The work-in-progress queue is ahead of the current one after a pass.
C24_Witness ==
  /\ TwoGenerations
  /\ lastOp.op = "processUpdateQueue"
  /\ queues[WIPQueue].firstUpdate # Null
  /\ queues[WIPQueue].firstUpdate # queues[CurrentQueue].firstUpdate
  /\ queues[WIPQueue].firstUpdate \in Range(NormalList(updates, queues[CurrentQueue]))

\* ------------------------------------------------------------ C25
CapturedStep == lastOp'.op = "enqueueCapturedUpdate"

\* The work-in-progress fiber holds the current fiber's queue object.
Aliased ==
  /\ fibers[WorkInProgress].alternate # Null
  /\ WIPQueue # Null /\ WIPQueue = CurrentQueue

C25_CurrentUntouched ==
  CurrentQueue # Null =>
    /\ fibers'[Current].updateQueue = CurrentQueue
    /\ \A field \in {"firstCapturedUpdate", "lastCapturedUpdate", "baseState",
                      "firstUpdate", "lastUpdate"} :
         queues'[CurrentQueue][field] = queues[CurrentQueue][field]

C25_CapturedStep ==
  LET capturedList == CapturedList(updates', PostQueue) IN
  /\ Aliased => fibers'[WorkInProgress].updateQueue # CurrentQueue
  /\ C25_CurrentUntouched
  /\ capturedList # <<>>
  /\ capturedList[Len(capturedList)] = lastOp'.arg
  /\ PostQueue.lastCapturedUpdate = lastOp'.arg

\* C25: enqueueCapturedUpdate clones the work-in-progress queue first if it is
\* the current fiber's queue object, leaves the current queue's
\* firstCapturedUpdate, lastCapturedUpdate, baseState, firstUpdate and
\* lastUpdate as they were, and makes the update the last node of the
\* work-in-progress captured list.
C25_CapturedOnlyWorkInProgress == [][CapturedStep => C25_CapturedStep]_qvars

\* A second captured update was enqueued on a work-in-progress queue that is
\* a separate object and starts at the same update as the current queue.
C25_Witness ==
  /\ lastOp.op = "enqueueCapturedUpdate"
  /\ TwoGenerations
  /\ queues[CurrentQueue].firstUpdate # Null
  /\ queues[WIPQueue].firstUpdate = queues[CurrentQueue].firstUpdate
  /\ queues[CurrentQueue].firstCapturedUpdate = Null
  /\ queues[WIPQueue].lastCapturedUpdate = lastOp.arg
  /\ Cardinality(captured) >= 2

\* ------------------------------------------------------------ C26
\* The partial state an update computes from the accumulator.
PartialState(i, state) ==
  CASE updates[i].payload = "fn"  -> [s |-> Append(state.s, i)]
    [] updates[i].payload = "obj" -> [t |-> i]
    [] OTHER                      -> NullValue

Merged(state, partial) ==
  [key \in DOMAIN state |-> IF key \in DOMAIN partial THEN partial[key] ELSE state[key]]

\* What the claim says an update of each kind does to the accumulator.
KindApply(state, i) ==
  LET partial == PartialState(i, state) IN
  CASE updates[i].tag \in {UpdateState, CaptureUpdate} ->
         IF IsNull(partial) THEN state ELSE Merged(state, partial)
    [] updates[i].tag = ReplaceState -> Merged(EmptyState, partial)
    [] updates[i].tag = ForceUpdate -> state

RECURSIVE KindFold(_, _)
KindFold(state, seq) ==
  IF seq = <<>> THEN state ELSE KindFold(KindApply(state, Head(seq)), Tail(seq))

CaptureFlags == {"DidCapture", "ShouldCapture"}

C26_ProcessStep ==
  LET admitted == AdmittedAt(Threshold, PreNormal \o PreCaptured)
      tags == {updates[i].tag : i \in Range(admitted)}
  IN
  /\ fibers'[WorkInProgress].memoizedState = KindFold(queues[WIPQueue].baseState, admitted)
  /\ hasForceUpdate' = (ForceUpdate \in tags)
  /\ fibers'[WorkInProgress].effectTag \cap CaptureFlags =
       IF CaptureUpdate \in tags THEN {"DidCapture"}
       ELSE fibers[WorkInProgress].effectTag \cap CaptureFlags

\* C26: an UpdateState update merges its partial state (literal, or computed
\* by the payload function from the accumulator) over the accumulator, and is
\* a no-op when the partial state is null; ReplaceState makes the computed
\* value the whole accumulator; ForceUpdate leaves the accumulator as it is
\* and makes hasForceUpdate true for that fold, the flag being reset at the
\* start of every fold and not raised by a skipped ForceUpdate; CaptureUpdate
\* does what UpdateState does, sets DidCapture and clears ShouldCapture.
C26_UpdateKinds == [][ProcessStep => C26_ProcessStep]_qvars

\* A fold that merged the result of an updater function, replaced the
\* accumulator by a literal, and applied a CaptureUpdate on a fiber that had
\* ShouldCapture.
C26_Witness ==
  /\ lastOp.op = "processUpdateQueue"
  /\ folded[WIPQueue] = <<1, 2, 3>>
  /\ updates[1].tag = UpdateState /\ updates[1].payload = "fn"
  /\ updates[2].tag = ReplaceState /\ updates[2].payload = "obj"
  /\ updates[3].tag = CaptureUpdate
  /\ fibers[WorkInProgress].memoizedState = [s |-> <<3>>, t |-> 2]
  /\ fibers[WorkInProgress].effectTag = {"DidCapture"}

\* ------------------------------------------------------------ C28
Malformed(i) == updates[i].tag \notin {UpdateState, ReplaceState, ForceUpdate, CaptureUpdate}

\* The fold is about to apply a malformed update.
AppliesMalformed ==
  /\ ProcessStep
  /\ \E i \in Range(AdmittedAt(Threshold, PreNormal \o PreCaptured)) : Malformed(i)

WellFormedOnly(seq) == SelectSeq(seq, LAMBDA i : ~Malformed(i))

\* C28, as claimed: an update whose tag is none of UpdateState, ReplaceState,
\* ForceUpdate and CaptureUpdate makes the fold fail with a signal, and is not
\* applied as a state change.
C28_MalformedSignals ==
  [][AppliesMalformed =>
       /\ lastOp'.thrown
       /\ fibers'[WorkInProgress].memoizedState = fibers[WorkInProgress].memoizedState]_qvars

C28_ProcessStep ==
  LET admitted == AdmittedAt(Threshold, PreNormal \o PreCaptured) IN
  /\ ~lastOp'.thrown
  /\ fibers'[WorkInProgress].memoizedState =
       KindFold(queues[WIPQueue].baseState, WellFormedOnly(admitted))
  /\ Range(SkippedAt(Threshold, PreNormal \o PreCaptured)) = {} =>
       /\ PostQueue.firstUpdate = Null /\ PostQueue.firstCapturedUpdate = Null
       /\ PostQueue.baseState = fibers'[WorkInProgress].memoizedState

\* C28, amended: an update whose tag is none of the four raises no signal; the
\* fold goes on to the end of the list, the update is not applied as a state
\* change, and it leaves the list as an applied update does.
C28_MalformedIgnored == [][AppliesMalformed => C28_ProcessStep]_qvars

\* A fold went past a malformed update and applied the update after it.
C28_Witness ==
  /\ lastOp.op = "processUpdateQueue"
  /\ ~lastOp.thrown
  /\ folded[WIPQueue] = <<1, 2, 3>>
  /\ updates[1].tag = UpdateState
  /\ Malformed(2) /\ updates[2].payload = "obj"
  /\ updates[3].tag = UpdateState
  /\ fibers[WorkInProgress].memoizedState = [s |-> <<1, 3>>, t |-> 0]
  /\ queues[WIPQueue].firstUpdate = Null

\* ------------------------------------------------------------ C27
\* The store after the step.
StoreAfter == [updates |-> updates', nUpdates |-> nUpdates', queues |-> queues',
               fibers |-> fibers', hasForceUpdate |-> hasForceUpdate', called |-> called',
               lastFold |-> lastFold', folded |-> folded', captured |-> captured',
               rebased |-> rebased', thrown |-> FALSE, diverged |-> FALSE,
               maxUpdates |-> MaxUpdates]

ListFields == {"baseState", "firstUpdate", "lastUpdate",
               "firstCapturedUpdate", "lastCapturedUpdate"}

\* What a fold of the work-in-progress queue of store h at threshold r gives:
\* whether it raised, the state, the remaining expiration time, the queue and
\* the links of the updates.
FoldOutcome(h, r) ==
  LET g == processUpdateQueue(h, WorkInProgress, h.fibers[WorkInProgress].updateQueue, r)
      queue == g.queues[g.fibers[WorkInProgress].updateQueue]
  IN [thrown |-> g.thrown,
      memoizedState |-> g.fibers[WorkInProgress].memoizedState,
      expirationTime |-> g.fibers[WorkInProgress].expirationTime,
      queue |-> [field \in ListFields |-> queue[field]],
      next |-> [i \in UpdateIds |-> g.updates[i].next]]

ThrowStep == ProcessStep /\ lastOp'.thrown

C27_ThrowStep ==
  /\ \A field \in ListFields : PostQueue[field] = queues[WIPQueue][field]
  /\ \A i \in UpdateIds : updates'[i].next = updates[i].next
  /\ \A r \in RenderTimes : FoldOutcome(StoreAfter, r) = FoldOutcome(Store, r)

\* C27: a fold in which a payload function throws leaves the queue's
\* baseState, firstUpdate, lastUpdate, firstCapturedUpdate and
\* lastCapturedUpdate and every update's next link as before the call, and a
\* fold after it processes the same updates in the same order with the same
\* result as if the failed fold had not happened.
C27_ThrowKeepsList == [][ThrowStep => C27_ThrowStep]_qvars

\* A fold applied an update and then failed in the payload function of the
\* next one, with a third update behind it, on a queue that was cloned from
\* the current fiber's queue for this fold or an earlier one.
C27_Witness ==
  /\ lastOp.op = "processUpdateQueue" /\ lastOp.thrown
  /\ TwoGenerations
  /\ NormalList(updates, queues[WIPQueue]) = <<1, 2, 3>>
  /\ updates[1].payload = "fn" /\ updates[2].payload = "throw"
  /\ updates[1].expirationTime >= lastOp.arg /\ updates[2].expirationTime >= lastOp.arg
  /\ queues[WIPQueue].baseState = EmptyState

\* ------------------------------------------------------------ C29
\* A call flushWork(true) with the scheduler not paused that did not throw.
ExpiredFlushStep ==
  /\ sLastOp'.op = "flushWork" /\ sLastOp'.arg = 1
  /\ ~isSchedulerPaused
  /\ ~sLastOp'.thrown

\* The nodes the step ran, in order.
NewlyRan == [k \in 1..(Len(ran') - Len(ran)) |-> ran'[Len(ran) + k]]

C29_Burst(log, k) ==
  /\ log[k].loop = "expired"
  /\ log[k].expirationTime <= log[k].sampled
  /\ log[k].sampled <= log[k].time
  /\ (k = 1 \/ log[k].sampled # log[k - 1].sampled) => log[k].sampled = log[k].time

C29_FlushStep ==
  LET log == flushLog'
      n == Len(log)
  IN
  /\ n >= 1 /\ log[n].loop = "end"
  /\ \A k \in 1..(n - 1) : C29_Burst(log, k)
  /\ log[n].node = Null \/ log[n].expirationTime > log[n].time
  /\ NewlyRan = [k \in 1..(n - 1) |-> log[k].node]
  /\ firstCallbackNode' = Null \/ nodes'[firstCallbackNode'].expirationTime > now'

\* C29: flushWork(true), with the scheduler not paused and no callback
\* throwing, keeps detaching and running the head, reads the current time
\* again between bursts, does not return while the head's expirationTime is
\* at or before the freshly read time, whatever the host says about the time
\* slice, and runs no node whose expirationTime is later than the time read
\* for its burst.
C29_ExpiredDrain == [][ExpiredFlushStep => C29_FlushStep]_svars

\* A drain of two bursts, the second for a node that expired while the first
\* ran, with the host reporting the slice exhausted all along, that left a
\* node that has not expired.
C29_Witness ==
  /\ sLastOp.op = "flushWork" /\ sLastOp.arg = 1 /\ ~sLastOp.thrown
  /\ Len(flushLog) = 3
  /\ flushLog[1].sampled < flushLog[2].sampled
  /\ flushLog[2].expirationTime > flushLog[1].sampled
  /\ flushLog[1].exhausted /\ flushLog[2].exhausted /\ flushLog[3].exhausted
  /\ flushLog[3].loop = "end" /\ flushLog[3].node # Null
  /\ firstCallbackNode = flushLog[3].node

\* ------------------------------------------------------------ C30
\* A call flushWork(false) with the scheduler not paused.
SlicedFlushStep ==
  /\ sLastOp'.op = "flushWork" /\ sLastOp'.arg = 0
  /\ ~isSchedulerPaused

C30_FlushStep ==
  LET log == flushLog'
      n == Len(log)
  IN
  /\ n >= 1 /\ log[n].loop = "end"
  /\ \A k \in 1..(n - 1) :
        /\ log[k].loop = "sliced"
        /\ log[k].node # Null
        /\ ~log[k].exhausted
  /\ NewlyRan = [k \in 1..(n - 1) |-> log[k].node]

\* C30: flushWork(false) detaches and runs a node only while the pending list
\* is not empty and the host does not report the time slice exhausted: no
\* callback is started at a moment when it does.
C30_TimeSliced == [][SlicedFlushStep => C30_FlushStep]_svars

\* A flush ran two callbacks that took time, and stopped with a node left
\* when the host reported the slice exhausted.
C30_Witness ==
  /\ sLastOp.op = "flushWork" /\ sLastOp.arg = 0
  /\ Len(flushLog) = 3
  /\ flushLog[1].time < flushLog[2].time
  /\ ~flushLog[1].exhausted /\ ~flushLog[2].exhausted
  /\ flushLog[3].loop = "end" /\ flushLog[3].exhausted
  /\ flushLog[3].node # Null /\ firstCallbackNode = flushLog[3].node

(***************************************************************************)
(* C31  No re-arming during a flush.  In every flushWork that is not       *)
(* skipped by pause, from the first runnable to the end of the try block   *)
(* isExecutingCallback is true and neither requestHostCallback nor         *)
(* cancelHostCallback has been called, whatever the runnables schedule     *)
(* (directly, through unstable_runWithPriority or as continuations); the   *)
(* whole call asks the host for a callback at most once.                   *)
(***************************************************************************)
FlushStep == sLastOp'.op = "flushWork" /\ flushLog' # <<>>

Requests(log) == Len(SelectSeq(log, LAMBDA c : c = "request"))

C31_FlushStep ==
  /\ \A k \in 1..Len(flushLog') :
       /\ flushLog'[k].executing
       /\ flushLog'[k].hostCalls = <<>>
  /\ Requests(hostLog') <= 1

C31_NoRearmDuringFlush == [][FlushStep => C31_FlushStep]_svars

\* The same without the runnables that call unstable_runWithPriority: the
\* spec under which this is checked has none.
C31_NoRearmByScheduling == [][FlushStep => C31_FlushStep]_<<svars, qvars>>

(***************************************************************************)
(* C32  When a flushWork call that was not skipped by pause returns,       *)
(* normally or by exception, the host is armed with the expirationTime of  *)
(* the head if the pending list is not empty, and isHostCallbackScheduled  *)
(* is false if the list is empty.                                          *)
(***************************************************************************)
C32_FlushStep ==
  IF firstCallbackNode' # Null
  THEN /\ host'.armed
       /\ host'.timeout = nodes'[firstCallbackNode'].expirationTime
  ELSE ~isHostCallbackScheduled'

C32_ArmedAfterFlush == [][FlushStep => C32_FlushStep]_svars

\* flushWork has returned by an exception of the second callback it ran, the
\* first one having scheduled a callback: the list is not empty and the host
\* is armed for its head.
C32_Witness ==
  /\ sLastOp.op = "flushWork" /\ sLastOp.thrown
  /\ flushLog # <<>>
  /\ Len(ran) >= 2 /\ nodes[ran[Len(ran)]].callback = "throw"
  /\ firstCallbackNode # Null
  /\ host.armed /\ host.timeout = nodes[firstCallbackNode].expirationTime

(***************************************************************************)
(* C33  Exception safety of a flush.  When flushWork returns by the        *)
(* exception of a runnable, the node of that runnable is unlinked and was  *)
(* run once; the pending list is a circular doubly-linked list, ordered by *)
(* expirationTime, of exactly the other nodes (those that were pending or  *)
(* were scheduled during the flush, and did not run);                      *)
(* currentPriorityLevel and currentExpirationTime are what they were       *)
(* before, isExecutingCallback is false and currentDidTimeout is what it   *)
(* was; and every node left pending is run by a later flush.               *)
(***************************************************************************)
ThrowFlushStep == FlushStep /\ sLastOp'.thrown

Occurrences(seq, n) == Len(SelectSeq(seq, LAMBDA x : x = n))

WellFormedOrdered ==
  LET N == Cardinality(PendingNodes) IN
  /\ (firstCallbackNode = Null) <=> (N = 0)
  /\ N > 0 =>
       /\ Walk(firstCallbackNode, N) = firstCallbackNode
       /\ {Walk(firstCallbackNode, k) : k \in 0..(N - 1)} = PendingNodes
  /\ \A n \in PendingNodes :
       /\ nodes[n].previous # Null
       /\ nodes[nodes[n].next].previous = n
       /\ nodes[nodes[n].previous].next = n
  /\ \A i, j \in 1..Len(PendingOrder) :
       i < j => nodes[PendingOrder[i]].expirationTime <= nodes[PendingOrder[j]].expirationTime

C33_ThrowStep ==
  LET newlyRan == {ran'[k] : k \in (Len(ran) + 1)..Len(ran')}
      scheduled == (nNodes + 1)..nNodes'
  IN /\ \E n \in newlyRan : nodes'[n].callback = "throw"
     /\ \A n \in newlyRan :
          /\ nodes'[n].next = Null /\ nodes'[n].previous = Null
          /\ Occurrences(ran', n) = 1
     /\ WellFormedOrdered'
     /\ PendingNodes' = (PendingNodes \cup scheduled) \ newlyRan
     /\ currentPriorityLevel' = currentPriorityLevel
     /\ currentExpirationTime' = currentExpirationTime
     /\ ~isExecutingCallback'
     /\ currentDidTimeout' = currentDidTimeout

C33_RunLater ==
  \A n \in NodeIds :
    (sLastOp.op = "flushWork" /\ sLastOp.thrown /\ n \in PendingNodes)
      ~> (\E i \in DOMAIN ran : ran[i] = n)

C34_Range == 8 <= frame.activeFrameTime /\ frame.activeFrameTime <= 33

C34_NeverIncreases == frame'.activeFrameTime <= frame.activeFrameTime

C34_Lowered ==
  frame'.activeFrameTime < frame.activeFrameTime =>
    /\ Len(frameTimes') = 2
    /\ frameTimes'[1] < frame.activeFrameTime
    /\ frameTimes'[2] < frame.activeFrameTime
    /\ frame'.activeFrameTime = Max({8, frameTimes'[1], frameTimes'[2]})

C34_FrameHeuristic ==
  /\ frame.activeFrameTime = 33
  /\ [](C34_Range)
  /\ [][C34_NeverIncreases /\ C34_Lowered]_hvars

\* What holds of every call: the range, and no increase.
C34_RangeAndMonotone ==
  /\ frame.activeFrameTime = 33
  /\ [](C34_Range)
  /\ [][C34_NeverIncreases]_hvars

(***************************************************************************)
(* C35  The fallback (setTimeout) host: a call of requestHostCallback(cb)  *)
(* that no call of cancelHostCallback has followed leads to a call of cb   *)
(* on a later turn, also when the request is made from inside cb (the      *)
(* cancel-then-request of flushWork's cleanup, after a runnable threw      *)
(* too).  As an invariant: while a request is owed, either _callback is    *)
(* set and a _flushCallback timer is pending, or a timer that will call    *)
(* requestHostCallback again is pending.                                   *)
(***************************************************************************)
TimerPending(timers, f) == \E i \in DOMAIN timers : timers[i] = f

C35_RequestNotLost ==
  (host.naive /\ host.owed) =>
     \/ host.callback /\ TimerPending(host.timers, "_flushCallback")
     \/ TimerPending(host.timers, "requestHostCallback")

(***************************************************************************)
(* C36  Liveness.  With a host that eventually runs the callback it holds  *)
(* a request for, a scheduler that is not paused for ever, finitely many   *)
(* calls of unstable_scheduleCallback and no endless chain of              *)
(* continuations, every node that is pending is eventually invoked or      *)
(* cancelled, also after a runnable has thrown; hence the pending list is  *)
(* empty again and again.                                                  *)
(***************************************************************************)
Invoked(n) == \E i \in DOMAIN ran : ran[i] = n

C36_Liveness ==
  /\ \A n \in NodeIds :
       (n <= nNodes /\ nodes[n].next # Null) ~> (Invoked(n) \/ n \in cancelled)
  /\ []<>(firstCallbackNode = Null)

\* A callback has thrown, and the two callbacks scheduled besides it have
\* been invoked since; none was cancelled.
C36_Witness ==
  /\ Len(ran) = 3
  /\ nodes[ran[1]].callback = "throw"
  /\ sLastOp.op = "flushWork"
  /\ ~isSchedulerPaused
  /\ firstCallbackNode = Null
  /\ cancelled = {}

EffectList(first) == ListFrom(updates, first, "nextEffect", HeapSize + 1)

NoRepeat(seq) == \A i, j \in DOMAIN seq : i < j => seq[i] # seq[j]

C38_EffectListsAcyclic ==
  /\ ~diverged
  /\ \A q \in QueueIds :
       /\ NoRepeat(EffectList(queues[q].firstEffect))
       /\ NoRepeat(EffectList(queues[q].firstCapturedEffect))

\* ------------------------------------------------------------ C39
\* The current fiber keeps its queue object, and the nine fields of that
\* object keep their values.
C39_CurrentUntouched ==
  CurrentQueue # Null =>
    /\ fibers'[Current].updateQueue = CurrentQueue
    /\ queues'[CurrentQueue] = queues[CurrentQueue]

\* The fold left the base of the queue where it was: a payload function
\* raised before the write-back, the list was empty, or the first update of
\* the list was skipped (line 469) and the rebase kept everything behind it.
FoldKeptBase ==
  \/ lastOp'.thrown
  \/ queues[CurrentQueue].firstUpdate = Null
  \/ updates[queues[CurrentQueue].firstUpdate].expirationTime < lastOp'.arg

\* The work-in-progress fiber has a queue object of its own after the call.
\* Where the fold kept the base, that object shows the clone: baseState,
\* firstUpdate and lastUpdate of the current queue and no captured updates;
\* where the fold applied no update with a callback, it has no effects.
C39_CloneFirst ==
  Aliased =>
    /\ fibers'[WorkInProgress].updateQueue # CurrentQueue
    /\ FoldKeptBase =>
         /\ \A field \in {"baseState", "firstUpdate", "lastUpdate"} :
              PostQueue[field] = queues[CurrentQueue][field]
         /\ PostQueue.firstCapturedUpdate = Null
         /\ PostQueue.lastCapturedUpdate = Null
    /\ lastFold'.applied = <<>> =>
         \A field \in {"firstEffect", "lastEffect", "firstCapturedEffect",
                        "lastCapturedEffect"} : PostQueue[field] = Null

\* C39: processUpdateQueue on the work-in-progress fiber changes no field of
\* the current fiber's queue object; when both fibers hold the same queue
\* object, the work-in-progress fiber is given a clone of it (same baseState,
\* firstUpdate and lastUpdate, empty captured and effect lists) and the fold
\* writes to the clone.
C39_DoubleBuffering == [][ProcessStep => (C39_CurrentUntouched /\ C39_CloneFirst)]_qvars

\* A fold applied both updates of the list to the work-in-progress fiber's
\* queue object, and the current fiber's queue object still holds both with
\* the base state it had.
C39_Witness ==
  /\ lastOp.op = "processUpdateQueue" /\ ~lastOp.thrown
  /\ TwoGenerations
  /\ folded[WIPQueue] = <<1, 2>>
  /\ queues[WIPQueue].firstUpdate = Null
  /\ queues[WIPQueue].baseState = [s |-> <<1, 2>>, t |-> 0]
  /\ NormalList(updates, queues[CurrentQueue]) = <<1, 2>>
  /\ queues[CurrentQueue].baseState = EmptyState

\* ------------------------------------------------------------ C40
\* The thresholds a fold may be run at, around the two scores.
C40_Thresholds(a, i) ==
  {NoWork, Never, Sync, a.currentTime, a.score, a.score + 1, i.score, i.score + 1}

\* a is an async and i an interactive computation for the same current time.
C40_Pair(a, i) ==
  (/\ a.fn = "computeAsyncExpiration"
   /\ i.fn = "computeInteractiveExpiration"
   /\ a.currentTime = i.currentTime) =>
    /\ i.score > a.score
    /\ \A renderExpirationTime \in C40_Thresholds(a, i) :
         Admits(renderExpirationTime, a.score) => Admits(renderExpirationTime, i.score)

\* C40: for the same current-time score, computeInteractiveExpiration gives a
\* strictly greater score than computeAsyncExpiration, and every fold
\* threshold that admits the async update admits the interactive one.
C40_InteractiveMoreUrgent == C40_Pair(earlier, request) /\ C40_Pair(request, earlier)

\* At time 0 of the production build the async score is 525 units below the
\* offset and the interactive score 20 units below it.
C40_Witness ==
  /\ ~dev
  /\ earlier.fn = "computeAsyncExpiration" /\ earlier.ms = 0
  /\ request.fn = "computeInteractiveExpiration" /\ request.ms = 0
  /\ earlier.score = MAGIC_NUMBER_OFFSET - 525
  /\ request.score = MAGIC_NUMBER_OFFSET - 20

====
